---------------------------- MODULE Spec2Model ----------------------------
(***************************************************************************)
(* Model of the locale translation pipeline of translate_locales.py:       *)
(* LocaleAnalyzer, TranslationValidator, TranslationEngine,                *)
(* SafeFileUpdater and LocaleTranslator.                                    *)
(*                                                                         *)
(* A text (a Python str) is a sequence of one-character strings.  A JSON   *)
(* object (a Python dict of str to str) is a function from a finite set of *)
(* keys to texts; where the code depends on the insertion order of a dict  *)
(* the order is kept beside it as a sequence of keys.                      *)
(***************************************************************************)
EXTENDS Integers, Sequences, FiniteSets, TLC

(***************************************************************************)
(* Generic helpers on sequences and functions.                             *)
(***************************************************************************)
Range(s) == {s[i] : i \in 1..Len(s)}

InSeq(x, s) == \E i \in 1..Len(s) : s[i] = x

RECURSIVE Concat(_)
Concat(ss) == IF ss = <<>> THEN <<>> ELSE Head(ss) \o Concat(Tail(ss))

SeqsUpTo(S, n) == UNION {[1..m -> S] : m \in 0..n}

Min(a, b) == IF a < b THEN a ELSE b

EmptyMap == <<>>

\* dict[key] = value
Put(d, k, v) == [x \in (DOMAIN d) \cup {k} |-> IF x = k THEN v ELSE d[x]]

(***************************************************************************)
(* TranslationValidator                                                    *)
(***************************************************************************)
LatinLetters ==
    {"a","b","c","d","e","f","g","h","i","j","k","l","m",
     "n","o","p","q","r","s","t","u","v","w","x","y","z",
     "A","B","C","D","E","F","G","H","I","J","K","L","M",
     "N","O","P","Q","R","S","T","U","V","W","X","Y","Z"}

Whitespace == {" "}

\* index of the first "}" of s at or after i, Len(s) + 1 when there is none
RECURSIVE FirstClose(_, _)
FirstClose(s, i) ==
    IF i > Len(s) THEN Len(s) + 1
    ELSE IF s[i] = "}" THEN i
    ELSE FirstClose(s, i + 1)

\* re.findall(r'\{\{[^}]+\}\}', s) scanning from position i: the matches,
\* leftmost first and not overlapping
RECURSIVE FindAllFrom(_, _)
FindAllFrom(s, i) ==
    IF i + 4 > Len(s) THEN <<>>
    ELSE IF s[i] = "{" /\ s[i + 1] = "{"
         THEN LET j == FirstClose(s, i + 2)
              IN  IF j > i + 2 /\ j + 1 <= Len(s) /\ s[j + 1] = "}"
                  THEN <<SubSeq(s, i, j + 1)>> \o FindAllFrom(s, j + 2)
                  ELSE FindAllFrom(s, i + 1)
         ELSE FindAllFrom(s, i + 1)

FindPlaceholders(s) == FindAllFrom(s, 1)

\* re.sub(r'\{\{[^}]+\}\}', '', s) scanning from position i
RECURSIVE StripPlaceholdersFrom(_, _)
StripPlaceholdersFrom(s, i) ==
    IF i > Len(s) THEN <<>>
    ELSE IF i + 4 <= Len(s) /\ s[i] = "{" /\ s[i + 1] = "{"
         THEN LET j == FirstClose(s, i + 2)
              IN  IF j > i + 2 /\ j + 1 <= Len(s) /\ s[j + 1] = "}"
                  THEN StripPlaceholdersFrom(s, j + 2)
                  ELSE <<s[i]>> \o StripPlaceholdersFrom(s, i + 1)
         ELSE <<s[i]>> \o StripPlaceholdersFrom(s, i + 1)

StripPlaceholders(s) == StripPlaceholdersFrom(s, 1)

\* s.replace(term, '') scanning from position i
RECURSIVE RemoveFrom(_, _, _)
RemoveFrom(s, term, i) ==
    IF i > Len(s) THEN <<>>
    ELSE IF i + Len(term) - 1 <= Len(s) /\ SubSeq(s, i, i + Len(term) - 1) = term
         THEN RemoveFrom(s, term, i + Len(term))
         ELSE <<s[i]>> \o RemoveFrom(s, term, i + 1)

Remove(s, term) == RemoveFrom(s, term, 1)

\* the loop "for term in technical_terms: check_text = check_text.replace(term, '')"
RECURSIVE RemoveTerms(_, _)
RemoveTerms(s, terms) ==
    IF terms = <<>> THEN s ELSE RemoveTerms(Remove(s, Head(terms)), Tail(terms))

T_API == <<"A","P","I">>
T_URL == <<"U","R","L">>
T_JSON == <<"J","S","O","N">>
T_HTML == <<"H","T","M","L">>
T_HTTP == <<"H","T","T","P">>
T_HTTPS == <<"H","T","T","P","S">>
T_ID == <<"I","D">>
T_UI == <<"U","I">>
T_OpenAI == <<"O","p","e","n","A","I">>
T_ChatGPT == <<"C","h","a","t","G","P","T">>

\* technical_terms is a Python set of str: its iteration order is fixed for one
\* process and differs between processes (string hashing is randomised).  The
\* orders kept here are one with HTTP before HTTPS and one with HTTPS before HTTP.
\* A step that validates takes any of them, which allows every order a process can have.
TermOrders ==
    { <<T_API, T_URL, T_JSON, T_HTML, T_HTTP, T_HTTPS, T_ID, T_UI, T_OpenAI, T_ChatGPT>>,
      <<T_API, T_URL, T_JSON, T_HTML, T_HTTPS, T_HTTP, T_ID, T_UI, T_OpenAI, T_ChatGPT>> }

non_latin_scripts ==
    {"zh", "ja", "ko", "ar", "he", "hi", "th", "my", "si", "bn", "te", "ur", "am", "fa"}

ValidationResult(v, e, w) == [is_valid |-> v, errors |-> e, warnings |-> w]

\* the errors of validate_placeholders: one per element of original_placeholders
\* that is not in translated_placeholders
RECURSIVE MissingErrors(_, _)
MissingErrors(orig, trans) ==
    IF orig = <<>> THEN <<>>
    ELSE (IF InSeq(Head(orig), trans) THEN <<>>
          ELSE << <<"Missing placeholder", Head(orig)>> >>)
         \o MissingErrors(Tail(orig), trans)

\* the warnings of validate_placeholders
RECURSIVE ExtraWarnings(_, _)
ExtraWarnings(trans, orig) ==
    IF trans = <<>> THEN <<>>
    ELSE (IF InSeq(Head(trans), orig) THEN <<>>
          ELSE << <<"Extra placeholder", Head(trans)>> >>)
         \o ExtraWarnings(Tail(trans), orig)

validate_placeholders_missing_ok(original, translated) ==
    LET original_placeholders == FindPlaceholders(original)
        translated_placeholders == FindPlaceholders(translated)
    IN  ValidationResult(TRUE, <<>>,
                         ExtraWarnings(translated_placeholders, original_placeholders))

validate_placeholders(original, translated) ==
    LET original_placeholders == FindPlaceholders(original)
        translated_placeholders == FindPlaceholders(translated)
        errors == MissingErrors(original_placeholders, translated_placeholders)
    IN  ValidationResult(errors = <<>>, errors,
                         ExtraWarnings(translated_placeholders, original_placeholders))

validate_length_strict(original, translated) ==
    IF Len(original) = 0 THEN ValidationResult(TRUE, <<>>, <<>>)
    ELSE LET tolerance == IF Len(original) <= 5 THEN 5 ELSE 3
         IN  IF Len(translated) * tolerance < Len(original)
                \/ Len(translated) > tolerance * Len(original)
             THEN ValidationResult(FALSE, << <<"length ratio", Len(original), Len(translated)>> >>,
                                   <<>>)
             ELSE ValidationResult(TRUE, <<>>, <<>>)

validate_length_inclusive(original, translated) ==
    IF Len(original) = 0 THEN ValidationResult(TRUE, <<>>, <<>>)
    ELSE LET tolerance == IF Len(original) <= 5 THEN 5 ELSE 3
         IN  IF Len(translated) * tolerance <= Len(original)
                \/ Len(translated) >= tolerance * Len(original)
             THEN ValidationResult(TRUE, <<>>,
                      << <<"length ratio", Len(original), Len(translated)>> >>)
             ELSE ValidationResult(TRUE, <<>>, <<>>)

\* ratio < 1/tolerance or ratio > tolerance, with ratio = len(translated)/len(original),
\* in integers (the lengths are far below the precision of a float)
validate_length(original, translated) ==
    IF Len(original) = 0 THEN ValidationResult(TRUE, <<>>, <<>>)
    ELSE LET tolerance == IF Len(original) <= 5 THEN 5 ELSE 3
         IN  IF Len(translated) * tolerance < Len(original)
                \/ Len(translated) > tolerance * Len(original)
             THEN ValidationResult(TRUE, <<>>,
                      << <<"length ratio", Len(original), Len(translated)>> >>)
             ELSE ValidationResult(TRUE, <<>>, <<>>)

CountIn(s, S) == Cardinality({i \in 1..Len(s) : s[i] \in S})

validate_no_english_remnants_inclusive(original, translated, locale, terms) ==
    IF locale \in non_latin_scripts
    THEN LET check_text == StripPlaceholders(RemoveTerms(translated, terms))
             latin_chars == CountIn(check_text, LatinLetters)
             total_chars == Len(check_text) - CountIn(check_text, Whitespace)
         IN  IF total_chars > 0 /\ 10 * latin_chars >= 3 * total_chars
             THEN ValidationResult(TRUE, <<>>,
                      << <<"untranslated English", latin_chars, total_chars>> >>)
             ELSE ValidationResult(TRUE, <<>>, <<>>)
    ELSE ValidationResult(TRUE, <<>>, <<>>)

\* terms: the order in which the set technical_terms is iterated
validate_no_english_remnants(original, translated, locale, terms) ==
    IF locale \in non_latin_scripts
    THEN LET check_text == StripPlaceholders(RemoveTerms(translated, terms))
             latin_chars == CountIn(check_text, LatinLetters)
             total_chars == Len(check_text) - CountIn(check_text, Whitespace)
         IN  IF total_chars > 0 /\ 10 * latin_chars > 3 * total_chars
             THEN ValidationResult(TRUE, <<>>,
                      << <<"untranslated English", latin_chars, total_chars>> >>)
             ELSE ValidationResult(TRUE, <<>>, <<>>)
    ELSE ValidationResult(TRUE, <<>>, <<>>)

validate_translation(task, translated, terms) ==
    LET r1 == validate_placeholders(task.english_value, translated)
        r2 == validate_length(task.english_value, translated)
        r3 == validate_no_english_remnants(task.english_value, translated, task.locale, terms)
    IN  ValidationResult(r1.is_valid /\ r2.is_valid /\ r3.is_valid,
                         r1.errors \o r2.errors \o r3.errors,
                         r1.warnings \o r2.warnings \o r3.warnings)

(***************************************************************************)
(* The file system: locale directories, locale files, temporary files and  *)
(* the backup store.  A file is a record: exists, whole (FALSE while its   *)
(* JSON text is only partly written) and data (the object it holds).       *)
(***************************************************************************)
ENGLISH_LOCALE == "en"

TargetLocales == {"fr", "zh"}

AllLocales == {ENGLISH_LOCALE} \cup TargetLocales

\* sorted(locales) of get_available_locales
SortedLocales == <<"en", "fr", "zh">>

\* the *.json names of the locale directories
FileNames == {"chat.json", "common.json", "terms.json"}

\* Path.with_suffix('.tmp') of a file name
with_suffix_tmp(file_name) ==
    CASE file_name = "chat.json" -> "chat.tmp"
      [] file_name = "common.json" -> "common.tmp"
      [] file_name = "terms.json" -> "terms.tmp"

TmpNames == {with_suffix_tmp(f) : f \in FileNames}

\* the order in which a JSON object lists its keys, and in which dict iteration
\* yields them
KeyOrder == <<"greet", "bye", "send", "extra">>

Keys == Range(KeyOrder)

NoFile == [exists |-> FALSE, whole |-> TRUE, data |-> EmptyMap]

File(d) == [exists |-> TRUE, whole |-> TRUE, data |-> d]

\* LOCALES_DIR / locale / name, as the pair <<locale, name>>
Paths == AllLocales \X (FileNames \cup TmpNames)

KeysInOrder(d) == SelectSeq(KeyOrder, LAMBDA k : k \in DOMAIN d)

(***************************************************************************)
(* LocaleAnalyzer                                                          *)
(***************************************************************************)
TranslationTask(locale, file_name, key, english_value, is_missing) ==
    [locale |-> locale, file_name |-> file_name, key |-> key,
     english_value |-> english_value, is_missing |-> is_missing]

\* _load_english_reference: the *.json files of the English directory but terms.json,
\* in the order the directory listing gives them (order: a sequence of file names)
load_english_reference_all(fs, order) ==
    SelectSeq(order, LAMBDA f : fs[<<ENGLISH_LOCALE, f>>].exists)

load_english_reference(fs, order) ==
    SelectSeq(order, LAMBDA f : fs[<<ENGLISH_LOCALE, f>>].exists /\ f # "terms.json")

FileTasks_skip_empty(english, fs, locale, file_name) ==
    LET english_data == english[file_name]
        keys == KeysInOrder(english_data)
        locale_file == fs[<<locale, file_name>>]
        wanted == IF ~locale_file.exists THEN keys
                  ELSE SelectSeq(keys, LAMBDA k : k \notin DOMAIN locale_file.data)
    IN  [i \in 1..Len(wanted) |->
            TranslationTask(locale, file_name, wanted[i], english_data[wanted[i]], TRUE)]

FileTasks_flag_present(english, fs, locale, file_name) ==
    LET english_data == english[file_name]
        keys == KeysInOrder(english_data)
        locale_file == fs[<<locale, file_name>>]
        wanted == IF ~locale_file.exists THEN keys
                  ELSE SelectSeq(keys, LAMBDA k :
                           \/ k \notin DOMAIN locale_file.data
                           \/ locale_file.data[k] = <<>>)
    IN  [i \in 1..Len(wanted) |->
            TranslationTask(locale, file_name, wanted[i], english_data[wanted[i]],
                            locale_file.exists)]

\* lines 175-209: the tasks analyze_locale makes of one English file
FileTasks(english, fs, locale, file_name) ==
    LET english_data == english[file_name]
        keys == KeysInOrder(english_data)
        locale_file == fs[<<locale, file_name>>]
        wanted == IF ~locale_file.exists THEN keys
                  ELSE SelectSeq(keys, LAMBDA k :
                           \/ k \notin DOMAIN locale_file.data
                           \/ locale_file.data[k] = <<>>)
    IN  [i \in 1..Len(wanted) |->
            TranslationTask(locale, file_name, wanted[i], english_data[wanted[i]],
                            IF ~locale_file.exists THEN TRUE
                            ELSE wanted[i] \notin DOMAIN locale_file.data)]

\* english: file name -> object, of the files in english_files (a sequence)
analyze_locale(english, english_files, dirs_, fs, locale) ==
    IF locale \notin dirs_ THEN <<>>
    ELSE Concat([i \in 1..Len(english_files) |->
                    FileTasks(english, fs, locale, english_files[i])])

get_available_locales(dirs_) ==
    SelectSeq(SortedLocales, LAMBDA l : l \in dirs_ /\ l # ENGLISH_LOCALE)

\* all_tasks: a dict locale -> tasks, kept as the sequence of its items in
\* insertion order; a locale listed twice keeps its first place
RECURSIVE GenerateFrom(_, _, _, _, _, _)
GenerateFrom(english, english_files, dirs_, fs, locales, seen) ==
    IF locales = <<>> THEN <<>>
    ELSE LET locale == Head(locales)
             tasks == analyze_locale(english, english_files, dirs_, fs, locale)
         IN  IF tasks # <<>> /\ locale \notin seen
             THEN <<[locale |-> locale, tasks |-> tasks]>>
                  \o GenerateFrom(english, english_files, dirs_, fs, Tail(locales),
                                  seen \cup {locale})
             ELSE GenerateFrom(english, english_files, dirs_, fs, Tail(locales), seen)

None == <<"None">>

generate_translation_tasks_repeating(english, english_files, dirs_, fs, locales) ==
    LET wanted == IF locales = None THEN get_available_locales(dirs_) ELSE locales
        found == SelectSeq(wanted, LAMBDA l :
                     analyze_locale(english, english_files, dirs_, fs, l) # <<>>)
    IN  [i \in 1..Len(found) |->
            [locale |-> found[i],
             tasks |-> analyze_locale(english, english_files, dirs_, fs, found[i])]]

generate_translation_tasks(english, english_files, dirs_, fs, locales) ==
    GenerateFrom(english, english_files, dirs_, fs,
                 IF locales = None THEN get_available_locales(dirs_) ELSE locales, {})

(***************************************************************************)
(* LocaleTranslator.group_tasks_into_batches                               *)
(***************************************************************************)
GroupOf(task) == <<task.locale, task.file_name>>

\* the keys of the dict grouped, in insertion order
RECURSIVE GroupKeys(_, _)
GroupKeys(tasks, seen) ==
    IF tasks = <<>> THEN <<>>
    ELSE IF GroupOf(Head(tasks)) \in seen THEN GroupKeys(Tail(tasks), seen)
    ELSE <<GroupOf(Head(tasks))>> \o GroupKeys(Tail(tasks), seen \cup {GroupOf(Head(tasks))})

RECURSIVE Chunks_full_only(_, _)
Chunks_full_only(file_tasks, batch_size) ==
    IF Len(file_tasks) < batch_size THEN <<>>
    ELSE <<SubSeq(file_tasks, 1, batch_size)>>
         \o Chunks_full_only(SubSeq(file_tasks, batch_size + 1, Len(file_tasks)), batch_size)

\* file_tasks[i:i + batch_size] for i in range(0, len(file_tasks), batch_size)
RECURSIVE Chunks(_, _)
Chunks(file_tasks, batch_size) ==
    IF file_tasks = <<>> THEN <<>>
    ELSE <<SubSeq(file_tasks, 1, Min(batch_size, Len(file_tasks)))>>
         \o Chunks(SubSeq(file_tasks, Min(batch_size, Len(file_tasks)) + 1, Len(file_tasks)),
                   batch_size)

group_tasks_into_batches(tasks, batch_size) ==
    LET keys == GroupKeys(tasks, {})
    IN  Concat([g \in 1..Len(keys) |->
                   Chunks(SelectSeq(tasks, LAMBDA t : GroupOf(t) = keys[g]), batch_size)])

(***************************************************************************)
(* State                                                                   *)
(***************************************************************************)
VARIABLES
    dirs,               \* the locale directories that exist
    files,              \* path -> file: public/locales/<locale>/<name>
    backups,            \* path -> file: backup_dir/public/locales/<locale>/<file_name>
    backup_dir,         \* whether the directory SafeFileUpdater.backup_dir exists
    dirs0,              \* history: dirs when the run started
    files0,             \* history: files when the run started
    prev,               \* history: the earlier calls of run, each with its outcome
    raised_tasks,       \* history: the tasks of the batches whose translate_batch raised
    update_calls,       \* history: the calls of update_locale_file of the run, each as
                        \*          its pair of locale and file name
    answers,            \* the environment: the texts the provider answers with
    english_data,       \* LocaleAnalyzer.english_data, with its iteration order
    cfg,                \* the arguments of run: locales, batch_size, dry_run
    pc,                 \* the place of the run in the code
    all_tasks,          \* run: all_tasks
    li,                 \* run: index of the locale being processed
    batches,            \* run: batches
    bi,                 \* run: index of the batch being processed
    file_translations,  \* run: file_translations, items in insertion order
    ui,                 \* run: index of the item of file_translations being written
    stats,              \* LocaleTranslator.stats
    translation_cache,  \* TranslationEngine.translation_cache
    tb,                 \* the frame of translate_batch
    upd,                \* the frame of update_locale_file
    call                \* the frame of a call of a validator function

fsVars == <<dirs, files, backups>>

runVars == <<all_tasks, li, batches, bi, file_translations, ui, stats>>

histVars == <<dirs0, files0, prev, raised_tasks, update_calls>>

vars == <<dirs, files, backups, backup_dir, dirs0, files0, prev, raised_tasks, update_calls,
          answers, english_data,
          cfg, pc, all_tasks, li, batches, bi, file_translations, ui, stats,
          translation_cache, tb, upd, call>>

\* default of translate_batch's parameter max_retries
max_retries == 3

Stats0 ==
    [total_tasks |-> 0, translated |-> 0, failed |-> 0, warnings |-> 0,
     api_calls |-> 0, estimated_cost |-> 0]

NoFrame == [active |-> FALSE]

CacheKey_without_text(task) == <<task.locale, task.key, <<>> >>

\* lines 351 and 427
CacheKey(task) == <<task.locale, task.key, task.english_value>>

(***************************************************************************)
(* LocaleTranslator.run                                                    *)
(***************************************************************************)
RECURSIVE SumTasks(_)
SumTasks(items) == IF items = <<>> THEN 0 ELSE Len(Head(items).tasks) + SumTasks(Tail(items))

\* estimated_cost in millionths of a dollar
EstimatedCost(total_tasks, batch_size) ==
    ((total_tasks \div batch_size) + (IF total_tasks % batch_size # 0 THEN 1 ELSE 0))
        * batch_size * 50

\* lines 553-569
Analyze ==
    /\ pc = "start"
    /\ all_tasks' = generate_translation_tasks(english_data.data, english_data.files,
                                               dirs, files, cfg.locales)
    /\ IF all_tasks' = <<>>
       THEN /\ pc' = "done"
            /\ UNCHANGED <<stats, li>>
       ELSE /\ stats' = [stats EXCEPT !.total_tasks = SumTasks(all_tasks'),
                                      !.estimated_cost =
                                          EstimatedCost(SumTasks(all_tasks'), cfg.batch_size)]
            /\ li' = 1
            /\ pc' = "locale"
    /\ UNCHANGED <<fsVars, histVars, answers, backup_dir, english_data, cfg, batches, bi, file_translations, ui,
                   translation_cache, tb, upd, call>>

\* lines 575-582
StartLocale ==
    /\ pc = "locale"
    /\ li <= Len(all_tasks)
    /\ batches' = group_tasks_into_batches(all_tasks[li].tasks, cfg.batch_size)
    /\ file_translations' = <<>>
    /\ bi' = 1
    /\ pc' = "batch"
    /\ UNCHANGED <<fsVars, histVars, answers, backup_dir, english_data, cfg, all_tasks, li, ui, stats,
                   translation_cache, tb, upd, call>>

\* lines 621-632
Finish ==
    /\ pc = "locale"
    /\ li > Len(all_tasks)
    /\ pc' = "done"
    /\ UNCHANGED <<fsVars, histVars, answers, backup_dir, english_data, cfg, runVars, translation_cache, tb, upd, call>>

(***************************************************************************)
(* TranslationEngine.translate_batch                                       *)
(***************************************************************************)
CacheHits_unvalidated(tasks, cache, terms) ==
    LET hits == SelectSeq(tasks, LAMBDA t : <<t.locale, t.key, t.english_value>> \in DOMAIN cache)
    IN  [i \in 1..Len(hits) |->
            [task |-> hits[i],
             translated |-> cache[<<hits[i].locale, hits[i].key, hits[i].english_value>>],
             validation |-> ValidationResult(TRUE, <<>>, <<>>)]]

\* lines 350-357: the results of the cache hits
RECURSIVE CacheHits(_, _, _)
CacheHits(tasks, cache, terms) ==
    IF tasks = <<>> THEN <<>>
    ELSE (IF CacheKey(Head(tasks)) \in DOMAIN cache
          THEN <<[task |-> Head(tasks), translated |-> cache[CacheKey(Head(tasks))],
                  validation |-> validate_translation(Head(tasks),
                                     cache[CacheKey(Head(tasks))], terms)]>>
          ELSE <<>>)
         \o CacheHits(Tail(tasks), cache, terms)

UncachedTasks_all(tasks, cache) == tasks

UncachedTasks(tasks, cache) == SelectSeq(tasks, LAMBDA t : CacheKey(t) \notin DOMAIN cache)

\* lines 339-360
TranslateBatchBegin ==
    /\ pc = "batch"
    /\ bi <= Len(batches)
    /\ \E terms \in TermOrders :
          tb' = [active |-> TRUE,
                 results |-> CacheHits(batches[bi], translation_cache, terms),
                 uncached_tasks |-> UncachedTasks(batches[bi], translation_cache),
                 attempt |-> 0,
                 sleeps |-> <<>>,
                 requests |-> <<>>]
    /\ pc' = IF tb'.uncached_tasks = <<>> THEN "results" ELSE "request"
    /\ UNCHANGED <<fsVars, histVars, answers, backup_dir, english_data, cfg, runVars, translation_cache, upd, call>>

\* a request of lines 400-408 as the call has made it: the tasks whose key and text it
\* carries, how it ended ("parsed", "unparsed" or "raised") and the translations of
\* a parsed response
Request(tasks, outcome, translations) ==
    [tasks |-> tasks, outcome |-> outcome, translations |-> translations]

ValidationFailed_while_invalid(validation, attempt) == ~validation.is_valid

\* line 421
ValidationFailed(validation, attempt) == ~validation.is_valid /\ attempt < max_retries - 1

\* the for loop of lines 414-430 from the i-th pair of zip(uncached_tasks, translations):
\* acc is [results, cache, sleeps]
RECURSIVE ProcessTranslations(_, _, _, _, _, _)
ProcessTranslations(uncached_tasks, translations, i, attempt, terms, acc) ==
    IF i > Len(uncached_tasks) \/ i > Len(translations) THEN acc
    ELSE LET task == uncached_tasks[i]
             translated == translations[i]
             validation == validate_translation(task, translated, terms)
         IN  IF ValidationFailed(validation, attempt)
             THEN ProcessTranslations(uncached_tasks, translations, i + 1, attempt, terms,
                      [acc EXCEPT !.sleeps = Append(@, 1)])
             ELSE ProcessTranslations(uncached_tasks, translations, i + 1, attempt, terms,
                      [acc EXCEPT
                          !.cache = Put(@, CacheKey(task), translated),
                          !.results = Append(@, [task |-> task, translated |-> translated,
                                                 validation |-> validation])])

\* the translations the provider answers with: one that keeps the placeholder {{n}}
\* and one that holds no placeholder
TR_KEEP == <<"y", "o", " ", "{", "{", "n", "}", "}">>

TR_DROP == <<"y", "o">>

Candidates == {TR_KEEP, TR_DROP}

\* lines 400-432: the provider answers with a parsed response; its translations are
\* paired with the uncached tasks by position, and the call returns.  The response
\* holds any number of items up to the number of tasks (zip ignores further ones).
ProviderResponse ==
    /\ pc = "request"
    /\ tb.attempt < max_retries
    /\ \E n \in 0..Len(tb.uncached_tasks) :
       \E translations \in [1..n -> answers] :
       \E terms \in TermOrders :
          LET acc == ProcessTranslations(tb.uncached_tasks, translations, 1, tb.attempt, terms,
                         [results |-> tb.results, cache |-> translation_cache,
                          sleeps |-> tb.sleeps])
          IN  /\ tb' = [tb EXCEPT
                           !.results = acc.results,
                           !.sleeps = acc.sleeps,
                           !.requests = Append(@, Request(tb.uncached_tasks, "parsed",
                                                          translations))]
              /\ translation_cache' = acc.cache
    /\ pc' = "results"
    /\ UNCHANGED <<fsVars, histVars, answers, backup_dir, english_data, cfg, runVars, upd, call>>

\* lines 410, 398, 441: the response holds no parsed message; the next attempt follows
\* at once, and after the last one the call returns the results it has
ProviderUnparsed ==
    /\ pc = "request"
    /\ tb.attempt < max_retries
    /\ tb' = [tb EXCEPT
                 !.attempt = @ + 1,
                 !.requests = Append(@, Request(tb.uncached_tasks, "unparsed", <<>>))]
    /\ pc' = IF tb.attempt + 1 < max_retries THEN "request" ELSE "results"
    /\ UNCHANGED <<fsVars, histVars, answers, backup_dir, english_data, cfg, runVars, translation_cache, upd, call>>

Pow2_constant(n) == 1

\* 2 ** attempt of line 437, for the attempts there are
Pow2(n) == IF n = 0 THEN 1 ELSE IF n = 1 THEN 2 ELSE IF n = 2 THEN 4 ELSE 8

\* lines 434-437: the request raises and attempts remain
ProviderErrorRetry ==
    /\ pc = "request"
    /\ tb.attempt < max_retries - 1
    /\ tb' = [tb EXCEPT
                 !.attempt = @ + 1,
                 !.sleeps = Append(@, Pow2(tb.attempt)),
                 !.requests = Append(@, Request(tb.uncached_tasks, "raised", <<>>))]
    /\ UNCHANGED <<fsVars, histVars, answers, backup_dir, english_data, cfg, pc, runVars, translation_cache, upd, call>>

\* lines 434-439: the request raises on the last attempt and translate_batch raises
ProviderErrorRaise ==
    /\ pc = "request"
    /\ tb.attempt = max_retries - 1
    /\ tb' = [tb EXCEPT !.requests = Append(@, Request(tb.uncached_tasks, "raised", <<>>))]
    /\ pc' = "raised"
    /\ UNCHANGED <<fsVars, histVars, answers, backup_dir, english_data, cfg, runVars, translation_cache,
                   upd, call>>

(***************************************************************************)
(* LocaleTranslator.run: the results of a batch                            *)
(***************************************************************************)
\* file_translations[file_name][key] = translated, on the items of the defaultdict
SetTranslation(ft, file_name, key, translated) ==
    IF \E i \in 1..Len(ft) : ft[i].file_name = file_name
    THEN [i \in 1..Len(ft) |->
             IF ft[i].file_name = file_name
             THEN [ft[i] EXCEPT !.translations = Put(@, key, translated)]
             ELSE ft[i]]
    ELSE Append(ft, [file_name |-> file_name, translations |-> Put(EmptyMap, key, translated)])

Accepted_always(validation) == TRUE

\* line 595
Accepted(validation) ==
    validation.is_valid \/ (validation.errors = <<>> /\ validation.warnings # <<>>)

\* lines 594-606 from the i-th result: acc is [ft, stats]
RECURSIVE ProcessResultsFrom(_, _, _)
ProcessResultsFrom(results, i, acc) ==
    IF i > Len(results) THEN acc
    ELSE LET r == results[i]
         IN  IF Accepted(r.validation)
             THEN ProcessResultsFrom(results, i + 1,
                      [ft |-> SetTranslation(acc.ft, r.task.file_name, r.task.key, r.translated),
                       stats |-> [acc.stats EXCEPT
                                     !.translated = @ + 1,
                                     !.warnings = @ + Len(r.validation.warnings)]])
             ELSE ProcessResultsFrom(results, i + 1,
                      [acc EXCEPT !.stats.failed = @ + 1])

\* lines 590-606 and 612-614: translate_batch has returned
ProcessResults ==
    /\ pc = "results"
    /\ LET acc == ProcessResultsFrom(tb.results, 1,
                      [ft |-> file_translations,
                       stats |-> [stats EXCEPT !.api_calls = @ + 1]])
       IN  /\ file_translations' = acc.ft
           /\ stats' = acc.stats
    /\ bi' = bi + 1
    /\ pc' = "batch"
    /\ UNCHANGED <<fsVars, histVars, answers, backup_dir, english_data, cfg, all_tasks, li, batches, ui,
                   translation_cache, tb, upd, call>>

FailedCount_one(batch) == 1

\* line 610
FailedCount(batch) == Len(batch)

\* lines 608-614: translate_batch has raised
BatchFailed ==
    /\ pc = "raised"
    /\ stats' = [stats EXCEPT !.failed = @ + FailedCount(batches[bi])]
    /\ raised_tasks' = raised_tasks \cup Range(batches[bi])
    /\ bi' = bi + 1
    /\ pc' = "batch"
    /\ UNCHANGED <<fsVars, dirs0, files0, prev, update_calls, answers, backup_dir,
                   english_data, cfg, all_tasks, li, batches, file_translations, ui,
                   translation_cache, tb, upd, call>>

\* line 617: the batches of the locale are done
BeginUpdates ==
    /\ pc = "batch"
    /\ bi > Len(batches)
    /\ ui' = 1
    /\ pc' = "update"
    /\ UNCHANGED <<fsVars, histVars, answers, backup_dir, english_data, cfg, all_tasks, li, batches, bi,
                   file_translations, stats, translation_cache, tb, upd, call>>

\* line 575: the files of the locale are done
EndUpdates ==
    /\ pc = "update"
    /\ ui > Len(file_translations)
    /\ li' = li + 1
    /\ pc' = "locale"
    /\ UNCHANGED <<fsVars, histVars, answers, backup_dir, english_data, cfg, all_tasks, batches, bi,
                   file_translations, ui, stats, translation_cache, tb, upd, call>>

(***************************************************************************)
(* SafeFileUpdater                                                         *)
(***************************************************************************)
FilePath(locale, file_name) == <<locale, file_name>>

temp_path_in_place(file_path) == file_path

\* line 503
temp_path(file_path) == <<file_path[1], with_suffix_tmp(file_path[2])>>

\* line 481
MakesBackup(dry_run) == ~dry_run

WritesFile_ignoring_dry_run(updates_made, dry_run) == updates_made > 0

\* lines 500-501
WritesFile_never(updates_made, dry_run) == FALSE

WritesFile(updates_made, dry_run) == updates_made > 0 /\ ~dry_run

\* line 617-619: update_locale_file is called for the next item of file_translations
\* (line 476, 479)
UpdEnter ==
    /\ pc = "update"
    /\ ui <= Len(file_translations)
    /\ IF file_translations[ui].translations = EmptyMap
       THEN /\ ui' = ui + 1
            /\ UNCHANGED <<pc, upd, update_calls>>
       ELSE /\ upd' = [active |-> TRUE,
                       file_path |-> FilePath(all_tasks[li].locale, file_translations[ui].file_name),
                       translations |-> file_translations[ui].translations,
                       data |-> EmptyMap,
                       updates_made |-> 0,
                       written |-> 0]
            /\ pc' = IF files[upd'.file_path].exists
                     THEN (IF MakesBackup(cfg.dry_run) THEN "upd_backup" ELSE "upd_load")
                     ELSE "upd_new"
            /\ update_calls' = Append(update_calls, upd'.file_path)
            /\ UNCHANGED ui
    /\ UNCHANGED <<fsVars, dirs0, files0, prev, raised_tasks, answers, backup_dir, english_data,
                   cfg, all_tasks, li, batches, bi, file_translations, stats,
                   translation_cache, tb, call>>

backup_file_skip(bk, fs, file_path) == bk

\* lines 454-472: the backup store after backup_file(file_path)
backup_file(bk, fs, file_path) ==
    IF ~fs[file_path].exists THEN bk
    ELSE [bk EXCEPT ![file_path] = fs[file_path]]

\* lines 481-483
UpdBackup ==
    /\ pc = "upd_backup"
    /\ backups' = backup_file(backups, files, upd.file_path)
    /\ pc' = "upd_load"
    /\ UNCHANGED <<dirs, files, histVars, answers, backup_dir, english_data, cfg, runVars, translation_cache,
                   tb, upd, call>>

LoadData_empty(fs, file_path) == EmptyMap

\* lines 485-486: json.load of the file
LoadData(fs, file_path) == fs[file_path].data

\* lines 485-486
UpdLoad ==
    /\ pc = "upd_load"
    /\ upd' = [upd EXCEPT !.data = LoadData(files, upd.file_path)]
    /\ pc' = "upd_merge"
    /\ UNCHANGED <<fsVars, histVars, answers, backup_dir, english_data, cfg, runVars, translation_cache, tb, call>>

\* lines 488-490
UpdNew ==
    /\ pc = "upd_new"
    /\ upd' = [upd EXCEPT !.data = EmptyMap]
    /\ dirs' = IF cfg.dry_run THEN dirs ELSE dirs \cup {upd.file_path[1]}
    /\ pc' = "upd_merge"
    /\ UNCHANGED <<files, backups, histVars, answers, backup_dir, english_data, cfg, runVars, translation_cache,
                   tb, call>>

MayWrite_always(data, key) == TRUE

\* line 495
MayWrite(data, key) == key \notin DOMAIN data \/ data[key] = <<>>

\* lines 493-498 over the keys of translations: acc is [data, updates_made]
RECURSIVE MergeFrom(_, _, _)
MergeFrom(keys, translations, acc) ==
    IF keys = <<>> THEN acc
    ELSE IF MayWrite(acc.data, Head(keys))
         THEN MergeFrom(Tail(keys), translations,
                  [data |-> Put(acc.data, Head(keys), translations[Head(keys)]),
                   updates_made |-> acc.updates_made + 1])
         ELSE MergeFrom(Tail(keys), translations, acc)

\* lines 492-500
UpdMerge ==
    /\ pc = "upd_merge"
    /\ LET acc == MergeFrom(KeysInOrder(upd.translations), upd.translations,
                            [data |-> upd.data, updates_made |-> 0])
       IN  /\ upd' = [upd EXCEPT !.data = acc.data, !.updates_made = acc.updates_made]
           /\ pc' = IF WritesFile(acc.updates_made, cfg.dry_run) THEN "upd_open" ELSE "upd_return"
    /\ UNCHANGED <<fsVars, histVars, answers, backup_dir, english_data, cfg, runVars, translation_cache, tb, call>>

\* line 504: open(temp_path, 'w') creates or truncates the file
UpdOpenTemp ==
    /\ pc = "upd_open"
    /\ files' = [files EXCEPT ![temp_path(upd.file_path)] =
                     [exists |-> TRUE, whole |-> FALSE, data |-> EmptyMap]]
    /\ pc' = "upd_dump"
    /\ UNCHANGED <<dirs, backups, histVars, answers, backup_dir, english_data, cfg, runVars, translation_cache,
                   tb, upd, call>>

\* line 505: json.dump writes the next entry of data
UpdDump ==
    /\ pc = "upd_dump"
    /\ upd.written < Len(KeysInOrder(upd.data))
    /\ LET key == KeysInOrder(upd.data)[upd.written + 1]
       IN  files' = [files EXCEPT ![temp_path(upd.file_path)].data = Put(@, key, upd.data[key])]
    /\ upd' = [upd EXCEPT !.written = @ + 1]
    /\ UNCHANGED <<dirs, backups, histVars, answers, backup_dir, english_data, cfg, pc, runVars, translation_cache,
                   tb, call>>

\* lines 504-505: json.dump has written all of data and the file is closed
UpdClose ==
    /\ pc = "upd_dump"
    /\ upd.written = Len(KeysInOrder(upd.data))
    /\ files' = [files EXCEPT ![temp_path(upd.file_path)].whole = TRUE]
    /\ pc' = "upd_replace"
    /\ UNCHANGED <<dirs, backups, histVars, answers, backup_dir, english_data, cfg, runVars, translation_cache,
                   tb, upd, call>>

\* line 506: temp_path.replace(file_path)
UpdReplace ==
    /\ pc = "upd_replace"
    /\ files' = [p \in DOMAIN files |->
                    IF p = upd.file_path THEN files[temp_path(upd.file_path)]
                    ELSE IF p = temp_path(upd.file_path) THEN NoFile
                    ELSE files[p]]
    /\ pc' = "upd_return"
    /\ UNCHANGED <<dirs, backups, histVars, answers, backup_dir, english_data, cfg, runVars, translation_cache,
                   tb, upd, call>>

\* line 511
UpdReturn ==
    /\ pc = "upd_return"
    /\ ui' = ui + 1
    /\ pc' = "update"
    /\ UNCHANGED <<fsVars, histVars, answers, backup_dir, english_data, cfg, all_tasks, li, batches, bi,
                   file_translations, stats, translation_cache, tb, upd, call>>

UpdateNext ==
    \/ UpdEnter
    \/ UpdBackup
    \/ UpdLoad
    \/ UpdNew
    \/ UpdMerge
    \/ UpdOpenTemp
    \/ UpdDump
    \/ UpdClose
    \/ UpdReplace
    \/ UpdReturn

(***************************************************************************)
(* The run: initial states and specification                               *)
(***************************************************************************)
\* English texts
S_GREET == <<"H", "i", " ", "{", "{", "n", "}", "}">>

S_BYE == <<"B", "y", "e">>

S_SEND == <<"G", "o">>

\* a text a translator has entered by hand
X_OLD == <<"o", "l", "d">>

Map1(k1, v1) == Put(EmptyMap, k1, v1)

Map2(k1, v1, k2, v2) == Put(Map1(k1, v1), k2, v2)

EnglishCommon == Map2("greet", S_GREET, "bye", S_BYE)

EnglishChat == Map1("send", S_SEND)

EnglishTerms == Map1("greet", S_BYE)

\* the order in which the directory listing gives the English files
EnglishListing == <<"chat.json", "common.json", "terms.json">>

\* the file system with the English files and the given target files
MakeFiles(enCommon, enChat, frCommon, frChat, zhCommon, zhChat) ==
    [p \in Paths |->
        CASE p = <<"en", "common.json">> -> enCommon
          [] p = <<"en", "chat.json">> -> enChat
          [] p = <<"en", "terms.json">> -> File(EnglishTerms)
          [] p = <<"fr", "common.json">> -> frCommon
          [] p = <<"fr", "chat.json">> -> frChat
          [] p = <<"zh", "common.json">> -> zhCommon
          [] p = <<"zh", "chat.json">> -> zhChat
          [] OTHER -> NoFile]

\* LocaleAnalyzer.__init__ and _load_english_reference, lines 137-155
LoadEnglish(fs, listing) ==
    [files |-> load_english_reference(fs, listing),
     data |-> [f \in Range(load_english_reference(fs, listing)) |->
                  fs[<<ENGLISH_LOCALE, f>>].data]]

NoBackups == [p \in Paths |-> NoFile]

FrCommonOptions ==
    { NoFile,
      File(EmptyMap),
      File(Map2("greet", <<>>, "bye", X_OLD)),
      File(Map2("greet", X_OLD, "extra", X_OLD)) }

FrChatOptions == { NoFile, File(Map2("send", <<>>, "extra", X_OLD)) }

ZhCommonOptions == { File(Map2("greet", X_OLD, "bye", X_OLD)) }

ZhChatOptions == { NoFile, File(Map1("send", X_OLD)) }

RequestedOptions == { None, <<"fr">>, <<"zh", "fr">> }

MaxBatchSize == 2

RunIdle ==
    /\ all_tasks = <<>>
    /\ li = 1
    /\ batches = <<>>
    /\ bi = 1
    /\ file_translations = <<>>
    /\ ui = 1
    /\ stats = Stats0

FramesIdle ==
    /\ translation_cache = EmptyMap
    /\ tb = NoFrame
    /\ upd = NoFrame
    /\ call = NoFrame

(***************************************************************************)
(* The process: construction of the orchestrator and further calls of run  *)
(***************************************************************************)
\* LocaleAnalyzer.english_data before _load_english_reference has filled it
NoEnglish == [files |-> <<>>, data |-> <<>>]

ReferenceExists_always(dirs_) == TRUE

\* line 144
ReferenceExists(dirs_) == ENGLISH_LOCALE \in dirs_

\* LocaleTranslator.__init__, lines 520-532: the analyzer loads the English reference
\* or raises FileNotFoundError (line 145); then the engine with an empty cache, the
\* updater, which makes its backup directory (line 451), and the statistics follow
Construct ==
    /\ pc = "new"
    /\ IF ReferenceExists(dirs)
       THEN /\ english_data' = LoadEnglish(files, EnglishListing)
            /\ translation_cache' = EmptyMap
            /\ backup_dir' = TRUE
            /\ stats' = Stats0
            /\ pc' = "start"
       ELSE /\ pc' = "reference_missing"
            /\ UNCHANGED <<english_data, translation_cache, backup_dir, stats>>
    /\ UNCHANGED <<fsVars, histVars, answers, cfg, all_tasks, li, batches, bi,
                   file_translations, ui, tb, upd, call>>

\* what a call of run leaves for the history when the next one starts: its counters,
\* its arguments, the files it started with, and the backup store the next call
\* starts with
RunRecord(next_backups) ==
    [stats |-> stats, cfg |-> cfg, dirs0 |-> dirs0, files0 |-> files0,
     backups |-> next_backups]

MaxRuns == 2

\* run has returned (lines 559, 632) and is called again on the same LocaleTranslator,
\* with the same arguments: line 549
RunAgain ==
    /\ pc = "done"
    /\ Len(prev) + 1 < MaxRuns
    /\ prev' = Append(prev, RunRecord(backups))
    /\ dirs0' = dirs
    /\ files0' = files
    /\ raised_tasks' = {}
    /\ update_calls' = <<>>
    /\ all_tasks' = <<>>
    /\ li' = 1
    /\ batches' = <<>>
    /\ bi' = 1
    /\ file_translations' = <<>>
    /\ ui' = 1
    /\ tb' = NoFrame
    /\ upd' = NoFrame
    /\ pc' = "start"
    /\ UNCHANGED <<fsVars, answers, backup_dir, english_data, cfg, stats, translation_cache,
                   call>>

\* the process has ended and the script is started again with the same arguments
\* (lines 699-705): nothing of the first process is left but the files; the backup
\* directory of the new process is named after a later time (line 450) and is empty
NewProcess ==
    /\ pc = "done"
    /\ Len(prev) + 1 < MaxRuns
    /\ prev' = Append(prev, RunRecord(NoBackups))
    /\ dirs0' = dirs
    /\ files0' = files
    /\ raised_tasks' = {}
    /\ update_calls' = <<>>
    /\ backups' = NoBackups
    /\ backup_dir' = FALSE
    /\ english_data' = NoEnglish
    /\ translation_cache' = EmptyMap
    /\ stats' = Stats0
    /\ all_tasks' = <<>>
    /\ li' = 1
    /\ batches' = <<>>
    /\ bi' = 1
    /\ file_translations' = <<>>
    /\ ui' = 1
    /\ tb' = NoFrame
    /\ upd' = NoFrame
    /\ pc' = "new"
    /\ UNCHANGED <<dirs, files, answers, cfg, call>>

\* LocaleTranslator.__init__ has run (lines 520-532) and run is called
Init ==
    /\ \E frCommon \in FrCommonOptions, frChat \in FrChatOptions,
          zhCommon \in ZhCommonOptions, zhChat \in ZhChatOptions,
          hasFr \in BOOLEAN, hasZh \in BOOLEAN :
          /\ dirs = {"en"} \cup (IF hasFr THEN {"fr"} ELSE {}) \cup (IF hasZh THEN {"zh"} ELSE {})
          /\ files = MakeFiles(File(EnglishCommon), File(EnglishChat),
                               IF hasFr THEN frCommon ELSE NoFile,
                               IF hasFr THEN frChat ELSE NoFile,
                               IF hasZh THEN zhCommon ELSE NoFile,
                               IF hasZh THEN zhChat ELSE NoFile)
    /\ backups = NoBackups
    /\ dirs0 = dirs
    /\ files0 = files
    /\ prev = <<>>
    /\ raised_tasks = {}
    /\ update_calls = <<>>
    /\ answers = Candidates
    /\ backup_dir = TRUE
    /\ english_data = LoadEnglish(files, EnglishListing)
    /\ cfg \in [locales : RequestedOptions, batch_size : 1..MaxBatchSize, dry_run : BOOLEAN]
    /\ pc = "start"
    /\ RunIdle
    /\ FramesIdle

Next ==
    \/ Analyze
    \/ StartLocale
    \/ Finish
    \/ TranslateBatchBegin
    \/ ProviderResponse
    \/ ProviderUnparsed
    \/ ProviderErrorRetry
    \/ ProviderErrorRaise
    \/ ProcessResults
    \/ BatchFailed
    \/ BeginUpdates
    \/ EndUpdates
    \/ UpdateNext

Spec == Init /\ [][Next]_vars

(***************************************************************************)
(* update_locale_file on any existing file and any incoming translations:  *)
(* the run stands at line 617 with one item in file_translations.          *)
(***************************************************************************)
\* the objects with keys among greet, bye, extra and values in V
MapsOver(V) == UNION {[D -> V] : D \in SUBSET {"greet", "bye", "extra"}}

ExistingOptions == {NoFile} \cup {File(d) : d \in MapsOver({<<>>, X_OLD})}

IncomingOptions == MapsOver(Candidates)

InitUpdate ==
    /\ \E existing \in ExistingOptions, hasFr \in BOOLEAN :
          /\ existing.exists => hasFr
          /\ dirs = {"en"} \cup (IF hasFr THEN {"fr"} ELSE {})
          /\ files = MakeFiles(File(EnglishCommon), File(EnglishChat),
                               existing, NoFile, NoFile, NoFile)
    /\ backups = NoBackups
    /\ dirs0 = dirs
    /\ files0 = files
    /\ prev = <<>>
    /\ raised_tasks = {}
    /\ update_calls = <<>>
    /\ answers = Candidates
    /\ backup_dir = TRUE
    /\ english_data = LoadEnglish(files, EnglishListing)
    /\ cfg \in [locales : {<<"fr">>}, batch_size : {1}, dry_run : BOOLEAN]
    /\ pc = "update"
    /\ all_tasks = <<[locale |-> "fr", tasks |-> <<>>]>>
    /\ li = 1
    /\ batches = <<>>
    /\ bi = 1
    /\ \E translations \in IncomingOptions :
          file_translations = <<[file_name |-> "common.json", translations |-> translations]>>
    /\ ui = 1
    /\ stats = Stats0
    /\ FramesIdle

SpecUpdate == InitUpdate /\ [][UpdateNext]_vars

\* the locale files (not the temporary ones)
LocaleFilePaths == AllLocales \X FileNames

HasText(file, k) == file.exists /\ k \in DOMAIN file.data /\ file.data[k] # <<>>

Holds(file, k, text) == file.exists /\ file.whole /\ k \in DOMAIN file.data /\ file.data[k] = text

\* C1: when update_locale_file (not a dry run) returns, every key that held a
\* non-empty value in the existing file E still holds that value, also when the
\* incoming map T gives another value for it, and every other key of T holds T's value.
C1_NonOverwrite ==
    (pc = "upd_return" /\ ~cfg.dry_run) =>
        LET E == files0[upd.file_path]
            T == upd.translations
            M == files[upd.file_path]
        IN  \A k \in Keys :
               IF HasText(E, k) THEN Holds(M, k, E.data[k])
               ELSE k \in DOMAIN T => Holds(M, k, T[k])

\* the case of C1: E = {greet: old}, T = {greet: yo, bye: yo {{n}}} gives
\* {greet: old, bye: yo {{n}}}
C1_Witness ==
    /\ pc = "upd_return"
    /\ ~cfg.dry_run
    /\ files0[upd.file_path] = File(Map1("greet", X_OLD))
    /\ upd.translations = Map2("greet", TR_DROP, "bye", TR_KEEP)
    /\ files[upd.file_path] = File(Map2("greet", X_OLD, "bye", TR_KEEP))

\* the merged mapping of the contract: existing non-empty values win, then incoming
Merged(E, T) ==
    [k \in (DOMAIN E) \cup (DOMAIN T) |->
        IF k \in DOMAIN E /\ E[k] # <<>> THEN E[k]
        ELSE IF k \in DOMAIN T THEN T[k] ELSE E[k]]

\* C3: at every step of update_locale_file the locale file holds either exactly
\* what it held before the update or exactly the complete merged mapping; no other
\* locale file changes.
C3_NeverPartial ==
    \A p \in LocaleFilePaths :
       \/ files[p] = files0[p]
       \/ /\ upd.active
          /\ p = upd.file_path
          /\ files[p] = File(Merged(files0[p].data, upd.translations))

\* the case of C3: the temporary file is partly written while the locale file, which
\* existed, still holds its old content; and the merged mapping is installed
C3_Witness ==
    /\ pc = "upd_dump"
    /\ files0[upd.file_path].exists
    /\ files[upd.file_path] = files0[upd.file_path]
    /\ ~files[temp_path(upd.file_path)].whole
    /\ upd.written > 0
    /\ upd.written < Cardinality(DOMAIN upd.data)

(***************************************************************************)
(* Claims about the files over a whole run                                 *)
(***************************************************************************)
\* the locales a run works on: the listed ones, or every target directory
Requested(locale) ==
    IF cfg.locales = None THEN locale \in dirs /\ locale # ENGLISH_LOCALE
    ELSE InSeq(locale, cfg.locales)

\* C2: over a whole run a key that held a non-empty value when the run started keeps
\* it, no key of a locale file is deleted (keys unknown to the reference included), no
\* locale file is removed, and the files of languages that were not requested are
\* unchanged; so only keys that were absent or empty change.
C2_OnlyMissingOrEmptyChange ==
    \A p \in LocaleFilePaths :
       /\ files0[p].exists =>
             /\ files[p].exists
             /\ \A k \in DOMAIN files0[p].data :
                   /\ k \in DOMAIN files[p].data
                   /\ files0[p].data[k] # <<>> => files[p].data[k] = files0[p].data[k]
       /\ ~Requested(p[1]) => files[p] = files0[p]

\* the case of C2: the run is over, it has rewritten a file that held a hand-made
\* value and a key unknown to the reference, and a language with a missing file was
\* not requested
C2_Witness ==
    /\ pc = "done"
    /\ files[<<"fr", "common.json">>] # files0[<<"fr", "common.json">>]
    /\ HasText(files0[<<"fr", "common.json">>], "greet")
    /\ HasText(files0[<<"fr", "common.json">>], "extra")
    /\ ~Requested("zh")
    /\ "zh" \in dirs
    /\ ~files0[<<"zh", "chat.json">>].exists

\* C4: in a run that is not a dry run, a locale file that existed when the run started
\* is replaced only while the backup store holds a copy of its content at the start of
\* the run, and a backup copy, once made, does not change.
C4_BackupBeforeReplace ==
    /\ [](\A p \in LocaleFilePaths :
             (files0[p].exists /\ (files[p] # files0[p] \/ (pc = "upd_replace" /\ p = upd.file_path)))
                => backups[p] = files0[p])
    /\ [][\A p \in LocaleFilePaths : backups[p].exists => backups'[p] = backups[p]]_vars

\* the case of C4: an existing file is about to be replaced
C4_Witness ==
    /\ pc = "upd_replace"
    /\ ~cfg.dry_run
    /\ files0[upd.file_path].exists
    /\ backups[upd.file_path] = files0[upd.file_path]
    /\ upd.data # files0[upd.file_path].data

\* C5: in dry-run mode no file and no directory is created or changed, and the backup
\* store stays empty, whatever the provider answers.
C5_DryRunFrame ==
    cfg.dry_run =>
        /\ files = files0
        /\ backups = NoBackups
        /\ dirs = dirs0

\* the case of C5: a dry run has counted a rejected result and leaves
\* update_locale_file with updates it would have written to an existing file
C5_Witness ==
    /\ cfg.dry_run
    /\ pc = "upd_return"
    /\ upd.updates_made > 0
    /\ files0[upd.file_path].exists
    /\ stats.failed > 0

(***************************************************************************)
(* The Diff Analyzer on any target directory: run up to line 569.          *)
(***************************************************************************)
EnglishCommonOptions == { File(EnglishCommon), File(Map2("greet", S_GREET, "bye", <<>>)) }

ListingOptions ==
    { <<"chat.json", "common.json", "terms.json">>,
      <<"terms.json", "common.json", "chat.json">> }

AnalyzeCommonOptions ==
    {NoFile} \cup {File(d) : d \in MapsOver({<<>>, X_OLD})} \cup EnglishCommonOptions

AnalyzeChatOptions == { NoFile, File(Map1("send", <<>>)), File(Map1("send", X_OLD)) }

AnalyzeRequestedOptions == { None, <<"fr">>, <<"zh", "fr">>, <<"fr", "fr">> }

InitAnalyze ==
    /\ \E enCommon \in EnglishCommonOptions, listing \in ListingOptions,
          frCommon \in AnalyzeCommonOptions, frChat \in AnalyzeChatOptions,
          hasFr \in BOOLEAN, hasZh \in BOOLEAN :
          /\ (frCommon.exists \/ frChat.exists) => hasFr
          /\ dirs = {"en"} \cup (IF hasFr THEN {"fr"} ELSE {}) \cup (IF hasZh THEN {"zh"} ELSE {})
          /\ files = MakeFiles(enCommon, File(EnglishChat), frCommon, frChat,
                               IF hasZh THEN File(Map2("greet", X_OLD, "bye", X_OLD)) ELSE NoFile,
                               NoFile)
          /\ english_data = LoadEnglish(files, listing)
    /\ backups = NoBackups
    /\ dirs0 = dirs
    /\ files0 = files
    /\ prev = <<>>
    /\ raised_tasks = {}
    /\ update_calls = <<>>
    /\ answers = Candidates
    /\ backup_dir = TRUE
    /\ cfg \in [locales : AnalyzeRequestedOptions, batch_size : {1}, dry_run : {FALSE}]
    /\ pc = "start"
    /\ RunIdle
    /\ FramesIdle

SpecAnalyze == InitAnalyze /\ [][Analyze]_vars

\* the tasks of all_tasks for a locale and a file
TasksOf(locale, file_name) ==
    LET items == SelectSeq(all_tasks, LAMBDA it : it.locale = locale)
    IN  IF items = <<>> THEN <<>>
        ELSE SelectSeq(items[1].tasks, LAMBDA t : t.file_name = file_name)

Analyzed == pc # "start"

\* C6: for a requested language whose directory exists and a reference file whose
\* target file exists, there is exactly one task for each reference key that is absent
\* from the target or empty in it, and none for any other key; the task carries the
\* reference text, and its flag is_missing is true exactly when the key is absent.
C6_TasksOfExistingFile ==
    Analyzed =>
        \A l \in TargetLocales : \A f \in Range(english_data.files) :
           (Requested(l) /\ l \in dirs0 /\ files0[<<l, f>>].exists) =>
               LET ts == TasksOf(l, f)
                   target == files0[<<l, f>>].data
                   eng == english_data.data[f]
               IN  \A k \in Keys :
                      LET hits == {i \in DOMAIN ts : ts[i].key = k}
                      IN  IF k \in DOMAIN eng /\ (k \notin DOMAIN target \/ target[k] = <<>>)
                          THEN /\ Cardinality(hits) = 1
                               /\ \A i \in hits :
                                     /\ ts[i].is_missing = (k \notin DOMAIN target)
                                     /\ ts[i].english_value = eng[k]
                                     /\ ts[i].locale = l
                          ELSE hits = {}

\* the case of C6: a target file with an empty key, an absent key and a key unknown
\* to the reference gives the two tasks, and a target file equal to its reference
\* file gives none
C6_Witness ==
    /\ Analyzed
    /\ files0[<<"fr", "common.json">>] = File(Map2("greet", <<>>, "extra", X_OLD))
    /\ TasksOf("fr", "common.json") =
          << TranslationTask("fr", "common.json", "greet", S_GREET, FALSE),
             TranslationTask("fr", "common.json", "bye", S_BYE, TRUE) >>
    /\ files0[<<"fr", "chat.json">>] = File(Map1("send", X_OLD))
    /\ TasksOf("fr", "chat.json") = <<>>

AllMissing(ts, l, f) ==
    LET eng == english_data.data[f]
    IN  /\ Len(ts) = Cardinality(DOMAIN eng)
        /\ \A k \in DOMAIN eng :
              \E i \in DOMAIN ts : ts[i] = TranslationTask(l, f, k, eng[k], TRUE)

\* C7 as claimed: every requested language, with or without a directory, gets one
\* task with is_missing true for every key of every reference file it lacks.
C7_Claimed ==
    Analyzed =>
        \A l \in TargetLocales : \A f \in Range(english_data.files) :
           (Requested(l) /\ ~files0[<<l, f>>].exists) => AllMissing(TasksOf(l, f), l, f)

\* C7 as amended: a requested language whose directory exists gets one task with
\* is_missing true for every key of every reference file it lacks; a language whose
\* directory does not exist gets no task.
C7_TasksOfMissingFile ==
    Analyzed =>
        \A l \in TargetLocales : \A f \in Range(english_data.files) :
           /\ (Requested(l) /\ l \in dirs0 /\ ~files0[<<l, f>>].exists)
                 => AllMissing(TasksOf(l, f), l, f)
           /\ l \notin dirs0 => TasksOf(l, f) = <<>>

\* the case of C7: a directory that lacks a reference file, and a requested language
\* without a directory
C7_Witness ==
    /\ Analyzed
    /\ "fr" \in dirs0
    /\ ~files0[<<"fr", "common.json">>].exists
    /\ Len(TasksOf("fr", "common.json")) = 2
    /\ Requested("zh")
    /\ "zh" \notin dirs0

(***************************************************************************)
(* group_tasks_into_batches on any task list: run at line 579.             *)
(***************************************************************************)
MaxTasks == 5

MaxChunk == 3

TaskPool ==
    { TranslationTask("fr", "common.json", "greet", S_GREET, TRUE),
      TranslationTask("fr", "common.json", "bye", S_BYE, FALSE),
      TranslationTask("fr", "chat.json", "send", S_SEND, TRUE),
      TranslationTask("zh", "common.json", "greet", S_GREET, TRUE) }

InitBatch ==
    /\ dirs = AllLocales
    /\ files = MakeFiles(File(EnglishCommon), File(EnglishChat), NoFile, NoFile, NoFile, NoFile)
    /\ backups = NoBackups
    /\ dirs0 = dirs
    /\ files0 = files
    /\ prev = <<>>
    /\ raised_tasks = {}
    /\ update_calls = <<>>
    /\ answers = Candidates
    /\ backup_dir = TRUE
    /\ english_data = LoadEnglish(files, EnglishListing)
    /\ cfg \in [locales : {None}, batch_size : 1..MaxChunk, dry_run : {FALSE}]
    /\ pc = "locale"
    /\ \E tasks \in SeqsUpTo(TaskPool, MaxTasks) :
          all_tasks = <<[locale |-> "fr", tasks |-> tasks]>>
    /\ li = 1
    /\ batches = <<>>
    /\ bi = 1
    /\ file_translations = <<>>
    /\ ui = 1
    /\ stats = Stats0
    /\ FramesIdle

SpecBatch == InitBatch /\ [][StartLocale]_vars

RECURSIVE SumLen(_)
SumLen(ss) == IF ss = <<>> THEN 0 ELSE Len(Head(ss)) + SumLen(Tail(ss))

BatchesOfGroup(g) == SelectSeq(batches, LAMBDA b : GroupOf(b[1]) = g)

\* C8: the batches have between 1 and max_size tasks of one (locale, file) each; the
\* batches of a group, in output order, concatenate to the tasks of the group in input
\* order, and together the batches hold as many tasks as the input, so that every
\* input task is in exactly one batch; all batches of a group but its last are full.
C8_Batches ==
    pc = "batch" =>
        LET tasks == all_tasks[li].tasks
            max_size == cfg.batch_size
        IN  /\ \A b \in DOMAIN batches :
                  /\ Len(batches[b]) >= 1
                  /\ Len(batches[b]) <= max_size
                  /\ \A i \in DOMAIN batches[b] : GroupOf(batches[b][i]) = GroupOf(batches[b][1])
            /\ \A g \in {GroupOf(t) : t \in TaskPool} :
                  Concat(BatchesOfGroup(g)) = SelectSeq(tasks, LAMBDA t : GroupOf(t) = g)
            /\ SumLen(batches) = Len(tasks)
            /\ \A b1, b2 \in DOMAIN batches :
                  (b1 < b2 /\ GroupOf(batches[b1][1]) = GroupOf(batches[b2][1]))
                     => Len(batches[b1]) = max_size

\* the case of C8: five tasks of one group and max_size 2 give batches of sizes 2, 2, 1
\* (as 45 tasks and max_size 20 give 20, 20, 5)
C8_Witness ==
    /\ pc = "batch"
    /\ cfg.batch_size = 2
    /\ Len(all_tasks[li].tasks) = 5
    /\ Len(batches) = 3
    /\ Len(batches[1]) = 2 /\ Len(batches[2]) = 2 /\ Len(batches[3]) = 1
    /\ batches[1] \o batches[2] \o batches[3] = all_tasks[li].tasks

(***************************************************************************)
(* validate_placeholders on any pair of texts.                             *)
(***************************************************************************)
MaxSrcAtoms == 2

MaxTrAtoms == 3

A_N == <<"{", "{", "n", "}", "}">>

A_C == <<"{", "{", "c", "}", "}">>

A_X == <<"{", "{", "x", "}", "}">>

SrcAtoms == { A_N, A_C, <<"a">>, <<"{">> }

TrAtoms == { A_N, A_C, A_X, <<"a">>, <<"{">>, <<"}">> }

TextsOf(atoms, n) == {Concat(ss) : ss \in SeqsUpTo(atoms, n)}

InitPlaceholders ==
    /\ dirs = {"en"}
    /\ files = MakeFiles(File(EnglishCommon), File(EnglishChat), NoFile, NoFile, NoFile, NoFile)
    /\ backups = NoBackups
    /\ dirs0 = dirs
    /\ files0 = files
    /\ prev = <<>>
    /\ raised_tasks = {}
    /\ update_calls = <<>>
    /\ answers = Candidates
    /\ backup_dir = TRUE
    /\ english_data = LoadEnglish(files, EnglishListing)
    /\ cfg = [locales |-> None, batch_size |-> 1, dry_run |-> FALSE]
    /\ pc = "validate_placeholders"
    /\ RunIdle
    /\ translation_cache = EmptyMap
    /\ tb = NoFrame
    /\ upd = NoFrame
    /\ \E original \in TextsOf(SrcAtoms, MaxSrcAtoms), translated \in TextsOf(TrAtoms, MaxTrAtoms) :
          call = [active |-> TRUE, original |-> original, translated |-> translated,
                  done |-> FALSE, result |-> ValidationResult(TRUE, <<>>, <<>>)]

\* lines 234-253
CallValidatePlaceholders ==
    /\ pc = "validate_placeholders"
    /\ ~call.done
    /\ call' = [call EXCEPT !.done = TRUE,
                            !.result = validate_placeholders(call.original, call.translated)]
    /\ UNCHANGED <<fsVars, histVars, answers, backup_dir, english_data, cfg, pc, runVars, translation_cache, tb, upd>>

SpecPlaceholders == InitPlaceholders /\ [][CallValidatePlaceholders]_vars

\* p is a text {{...}} with at least one character and no } between the braces
IsPlaceholder(p) ==
    /\ Len(p) >= 5
    /\ p[1] = "{" /\ p[2] = "{" /\ p[Len(p) - 1] = "}" /\ p[Len(p)] = "}"
    /\ \A i \in 3..(Len(p) - 2) : p[i] # "}"

IsSubstring(p, s) == \E i \in 1..(Len(s) - Len(p) + 1) : SubSeq(s, i, i + Len(p) - 1) = p

\* C9: the placeholder check is invalid exactly when a placeholder found in the source
\* is not among the placeholders found in the translation; it has one error for each
\* such placeholder of the source, and one warning, which does not make it invalid, for
\* each placeholder of the translation that is not among those of the source.  The
\* placeholders found in a text are texts {{...}} of it, and one is found whenever the
\* text holds one.
C9_PlaceholderCheck ==
    call.active /\ call.done =>
        LET op == FindPlaceholders(call.original)
            tp == FindPlaceholders(call.translated)
            missing == {i \in DOMAIN op : ~InSeq(op[i], tp)}
            extra == {j \in DOMAIN tp : ~InSeq(tp[j], op)}
            r == call.result
        IN  /\ r.is_valid = (missing = {})
            /\ Len(r.errors) = Cardinality(missing)
            /\ \A i \in missing : InSeq(<<"Missing placeholder", op[i]>>, r.errors)
            /\ Len(r.warnings) = Cardinality(extra)
            /\ \A j \in extra : InSeq(<<"Extra placeholder", tp[j]>>, r.warnings)
            /\ \A s \in {call.original, call.translated} :
                  /\ \A i \in DOMAIN FindPlaceholders(s) :
                        /\ IsPlaceholder(FindPlaceholders(s)[i])
                        /\ IsSubstring(FindPlaceholders(s)[i], s)
                  /\ (\E a \in 1..Len(s), b \in 1..Len(s) : a <= b /\ IsPlaceholder(SubSeq(s, a, b)))
                        => FindPlaceholders(s) # <<>>

\* the case of C9: the source holds {{n}} and {{c}}; the translation keeps {{n}},
\* loses {{c}} and adds {{x}}: invalid, with one error and one warning
C9_Witness ==
    /\ call.active /\ call.done
    /\ call.original = A_N \o A_C
    /\ call.translated = <<"a">> \o A_N \o A_X
    /\ call.result = ValidationResult(FALSE, << <<"Missing placeholder", A_C>> >>,
                                      << <<"Extra placeholder", A_X>> >>)

(***************************************************************************)
(* Claims about the results the orchestrator accepts                       *)
(***************************************************************************)
\* file_translations holds a text for (file_name, key)
FtHas(ft, file_name, key) ==
    \E i \in DOMAIN ft : ft[i].file_name = file_name /\ key \in DOMAIN ft[i].translations

FtHolds(ft, file_name, key, text) ==
    \E i \in DOMAIN ft :
       /\ ft[i].file_name = file_name
       /\ key \in DOMAIN ft[i].translations
       /\ ft[i].translations[key] = text

\* every placeholder of the source text is among the placeholders of the text
KeepsPlaceholders(source, text) ==
    \A ph \in Range(FindPlaceholders(source)) : InSeq(ph, FindPlaceholders(text))

\* C10: when the orchestrator processes the results of a batch, each result without
\* errors (with or without warnings) is put into the per-file map and counted as
\* translated, and each result with errors is counted as failed and not put into the
\* map; and every value the run has written to a locale file holds every placeholder
\* of its source text.
C10_AcceptedResults ==
    /\ [][(pc = "results" /\ pc' = "batch") =>
            LET rs == tb.results
                good == {i \in DOMAIN rs : rs[i].validation.errors = <<>>}
                bad == {i \in DOMAIN rs : rs[i].validation.errors # <<>>}
            IN  /\ stats'.translated = stats.translated + Cardinality(good)
                /\ stats'.failed = stats.failed + Cardinality(bad)
                /\ \A i \in good : FtHolds(file_translations', rs[i].task.file_name,
                                           rs[i].task.key, rs[i].translated)
                /\ \A i \in bad : ~FtHas(file_translations', rs[i].task.file_name,
                                         rs[i].task.key)]_vars
    /\ [](\A p \in LocaleFilePaths : \A k \in DOMAIN files[p].data :
             (k \notin DOMAIN files0[p].data \/ files[p].data[k] # files0[p].data[k])
                => /\ p[2] \in Range(english_data.files)
                   /\ k \in DOMAIN english_data.data[p[2]]
                   /\ KeepsPlaceholders(english_data.data[p[2]][k], files[p].data[k]))

\* the case of C10: translate_batch has returned a result with errors and a result
\* with warnings only; the first is counted as failed and is not in the map, the
\* second is in the map
C10_Witness ==
    /\ pc = "batch"
    /\ tb.active
    /\ \E i, j \in DOMAIN tb.results :
          /\ tb.results[i].validation.errors # <<>>
          /\ ~FtHas(file_translations, tb.results[i].task.file_name, tb.results[i].task.key)
          /\ tb.results[j].validation.errors = <<>>
          /\ tb.results[j].validation.warnings # <<>>
          /\ FtHolds(file_translations, tb.results[j].task.file_name,
                     tb.results[j].task.key, tb.results[j].translated)
    /\ stats.failed = 1
    /\ stats.translated = 1

(***************************************************************************)
(* The batch loop of run (lines 585-614) on any batches of one language:   *)
(* a sequence of calls of translate_batch on one engine.                   *)
(***************************************************************************)
E_GREET == TranslationTask("fr", "common.json", "greet", S_GREET, TRUE)

E_BYE == TranslationTask("fr", "common.json", "bye", S_BYE, TRUE)

\* the same language, key and English text as E_BYE, in another file
E_BYE_CHAT == TranslationTask("fr", "chat.json", "bye", S_BYE, FALSE)

\* the same language and key as E_BYE with another English text: chat.json of the
\* reference gives the key bye the text of S_SEND
E_BYE_OTHER == TranslationTask("fr", "chat.json", "bye", S_SEND, FALSE)

\* chat.json of the reference: the key bye with the text common.json gives it, or
\* with another text
EngineChatOptions ==
    { File(Map2("send", S_SEND, "bye", S_BYE)), File(Map2("send", S_SEND, "bye", S_SEND)) }

\* the batches the tasks of fr can give, for the chat.json of the reference
EngineBatchOptions(english_chat) ==
    { <<E_GREET>>, <<E_GREET, E_BYE>>,
      <<TranslationTask("fr", "chat.json", "bye", english_chat.data["bye"], FALSE)>> }

MaxEngineBatches == 2

InitEngine ==
    /\ dirs = {"en", "fr"}
    /\ \E english_chat \in EngineChatOptions :
          files = MakeFiles(File(EnglishCommon), english_chat,
                            NoFile, File(Map1("bye", <<>>)), NoFile, NoFile)
    /\ backups = NoBackups
    /\ dirs0 = dirs
    /\ files0 = files
    /\ prev = <<>>
    /\ raised_tasks = {}
    /\ update_calls = <<>>
    /\ answers = Candidates
    /\ backup_dir = TRUE
    /\ english_data = LoadEnglish(files, EnglishListing)
    /\ cfg \in [locales : {<<"fr">>}, batch_size : {MaxBatchSize}, dry_run : BOOLEAN]
    /\ pc = "batch"
    /\ \E n \in 1..MaxEngineBatches :
          batches \in [1..n -> EngineBatchOptions(files[<<ENGLISH_LOCALE, "chat.json">>])]
    /\ all_tasks = <<[locale |-> "fr", tasks |-> Concat(batches)]>>
    /\ li = 1
    /\ bi = 1
    /\ file_translations = <<>>
    /\ ui = 1
    /\ stats = [Stats0 EXCEPT !.total_tasks = Len(Concat(batches)),
                              !.estimated_cost =
                                  EstimatedCost(Len(Concat(batches)), cfg.batch_size)]
    /\ FramesIdle

EngineNext ==
    \/ TranslateBatchBegin
    \/ ProviderResponse
    \/ ProviderUnparsed
    \/ ProviderErrorRetry
    \/ ProviderErrorRaise
    \/ ProcessResults
    \/ BatchFailed

SpecEngine == InitEngine /\ [][EngineNext]_vars

\* translate_batch is running or has just ended
InCall == pc \in {"request", "results", "raised"}

\* is_valid of validate_translation does not depend on the order of the terms
IsValid(task, translated) ==
    \A terms \in TermOrders : validate_translation(task, translated, terms).is_valid

\* the pairs of zip(uncached_tasks, translations) of a parsed response
Pairs(request) == 1..Min(Len(request.tasks), Len(request.translations))

HasInvalid(request) ==
    /\ request.outcome = "parsed"
    /\ \E j \in Pairs(request) : ~IsValid(request.tasks[j], request.translations[j])

\* C11 as the specification states it: when translate_batch has returned, every
\* response that held an invalid result while fewer than max_retries attempts had been
\* made was followed by another request that carries the whole batch of uncached tasks.
C11_Claimed ==
    pc = "results" =>
        \A i \in 1..Len(tb.requests) :
            (HasInvalid(tb.requests[i]) /\ i < max_retries) =>
                \E k \in (i + 1)..Len(tb.requests) :
                    tb.requests[k].tasks = tb.uncached_tasks

\* what the code does with such a response: translate_batch has returned after one
\* request and one sleep of a second, and the invalid item is neither in the results
\* nor in the cache
C11_Dropped ==
    /\ pc = "results"
    /\ Len(tb.requests) = 1
    /\ HasInvalid(tb.requests[1])
    /\ tb.sleeps = <<1>>
    /\ \E j \in Pairs(tb.requests[1]) :
          /\ ~IsValid(tb.requests[1].tasks[j], tb.requests[1].translations[j])
          /\ \A x \in 1..Len(tb.results) : tb.results[x].task # tb.requests[1].tasks[j]
          /\ CacheKey(tb.requests[1].tasks[j]) \notin DOMAIN translation_cache

AllRaised(requests) == \A i \in 1..Len(requests) : requests[i].outcome = "raised"

\* C12: a call of translate_batch never issues more than max_retries requests; while
\* every request of the call has raised, the call has slept 2^k seconds after the
\* failure of attempt k for every attempt but the last, it has raised exactly when
\* max_retries requests were issued, and it has returned only without any request.
C12_ProviderFailure ==
    InCall =>
        /\ Len(tb.requests) <= max_retries
        /\ AllRaised(tb.requests) =>
              /\ Len(tb.sleeps) = Min(Len(tb.requests), max_retries - 1)
              /\ \A k \in 1..Len(tb.sleeps) : tb.sleeps[k] = 2 ^ (k - 1)
              /\ \A k \in 2..Len(tb.sleeps) : tb.sleeps[k] = 2 * tb.sleeps[k - 1]
              /\ pc = "raised" <=> Len(tb.requests) = max_retries
              /\ pc = "results" => tb.requests = <<>>

C12_Witness ==
    /\ pc = "raised"
    /\ AllRaised(tb.requests)
    /\ Len(tb.requests) = max_retries
    /\ tb.sleeps = <<1, 2>>
    /\ tb.results # <<>>

\* C14 as the specification states it: no two requests carry the same triple
C14_Claimed ==
    InCall =>
        \A i, j \in 1..Len(tb.requests) :
            i # j =>
                {CacheKey(t) : t \in Range(tb.requests[i].tasks)}
                    \cap {CacheKey(t) : t \in Range(tb.requests[j].tasks)} = {}

\* C14: every request carries exactly the tasks of the batch whose triple is not in
\* the cache, so a triple that is cached is never carried by a later request.
C14_CachedNotRequested ==
    [][pc = "request" =>
           LET request == tb'.requests[Len(tb'.requests)]
           IN  /\ Len(tb'.requests) = Len(tb.requests) + 1
               /\ request.tasks = UncachedTasks(batches[bi], translation_cache)
               /\ \A t \in Range(request.tasks) :
                     CacheKey(t) \notin DOMAIN translation_cache]_vars

\* the second batch holds a task whose triple the first call has cached, and the
\* request of the second call carries only the other task
C14_Witness ==
    /\ pc = "results"
    /\ bi = 2
    /\ batches[2] = <<E_GREET, E_BYE>>
    /\ CacheKey(E_BYE) \in DOMAIN translation_cache
    /\ Len(tb.requests) = 1
    /\ tb.requests[1].tasks = <<E_GREET>>
    /\ \E x \in 1..Len(tb.results) : tb.results[x].task = E_BYE

\* C20: when translate_batch has returned after a parsed response to its last
\* permitted attempt, every invalid translation of that response is in the results,
\* paired with its task and its invalid ValidationResult.
C20_InvalidOnLastAttempt ==
    pc = "results" =>
        \A i \in 1..Len(tb.requests) :
            (tb.requests[i].outcome = "parsed" /\ i = max_retries) =>
                \A j \in Pairs(tb.requests[i]) :
                    LET task == tb.requests[i].tasks[j]
                        translated == tb.requests[i].translations[j]
                    IN  ~IsValid(task, translated) =>
                            \E x \in 1..Len(tb.results) :
                                /\ tb.results[x].task = task
                                /\ tb.results[x].translated = translated
                                /\ ~tb.results[x].validation.is_valid
                                /\ tb.results[x].validation.errors # <<>>
                                /\ \E terms \in TermOrders :
                                      tb.results[x].validation =
                                          validate_translation(task, translated, terms)

C20_Witness ==
    /\ pc = "results"
    /\ Len(tb.requests) = max_retries
    /\ tb.requests[max_retries].outcome = "parsed"
    /\ tb.requests[max_retries].tasks = <<E_GREET, E_BYE>>
    /\ tb.requests[max_retries].translations = <<TR_DROP, TR_DROP>>
    /\ Len(tb.results) = 2
    /\ ~tb.results[1].validation.is_valid
    /\ tb.results[2].validation.is_valid

\* the triple of a task under which the cache holds its translation
Triple(task) == <<task.locale, task.key, task.english_value>>

\* the tasks of a batch whose triple the cache holds
Hits(tasks, cache) == SelectSeq(tasks, LAMBDA t : Triple(t) \in DOMAIN cache)

\* C21: when translate_batch is entered, every task of the batch whose triple is in
\* the cache gets a result with the cached text and with the validation of this text
\* for this task, these are all the results so far, none of these tasks is among the
\* tasks to request, and the cache is as it was; when every task is a hit the call
\* returns at once.  Every request of the call carries exactly the tasks to request, a
\* call without such tasks makes no request, and the results of the hits stay the
\* first results of the call.
C21_CacheHits ==
    /\ [][(pc = "batch" /\ bi <= Len(batches)) =>
             LET hits == Hits(batches[bi], translation_cache)
             IN  /\ Len(tb'.results) = Len(hits)
                 /\ \A i \in 1..Len(hits) :
                       /\ tb'.results[i].task = hits[i]
                       /\ tb'.results[i].translated = translation_cache[Triple(hits[i])]
                       /\ \E terms \in TermOrders :
                             tb'.results[i].validation =
                                 validate_translation(hits[i], translation_cache[Triple(hits[i])],
                                                      terms)
                 /\ \A t \in Range(hits) : ~InSeq(t, tb'.uncached_tasks)
                 /\ \A t \in Range(batches[bi]) : InSeq(t, hits) \/ InSeq(t, tb'.uncached_tasks)
                 /\ tb'.requests = <<>>
                 /\ translation_cache' = translation_cache
                 /\ Len(hits) = Len(batches[bi]) =>
                       (pc' = "results" /\ tb'.uncached_tasks = <<>>)]_vars
    /\ [][InCall =>
             \/ ~tb'.active
             \/ /\ Len(tb'.results) >= Len(tb.results)
                /\ SubSeq(tb'.results, 1, Len(tb.results)) = tb.results
                /\ tb'.uncached_tasks = tb.uncached_tasks]_vars
    /\ [](InCall =>
             /\ \A i \in 1..Len(tb.requests) : tb.requests[i].tasks = tb.uncached_tasks
             /\ tb.uncached_tasks = <<>> => (pc = "results" /\ tb.requests = <<>>))

\* the case of C21: the first call has translated bye of common.json, and the second
\* call, on the task of chat.json with the same key and English text, has returned the
\* cached text without a request, validated for this task (the placeholder of the
\* cached text is not in the source)
C21_Witness ==
    /\ pc = "results"
    /\ bi = 2
    /\ batches[1] = <<E_GREET, E_BYE>>
    /\ batches[2] = <<E_BYE_CHAT>>
    /\ tb.requests = <<>>
    /\ tb.uncached_tasks = <<>>
    /\ Len(tb.results) = 1
    /\ tb.results[1].task = E_BYE_CHAT
    /\ tb.results[1].translated = TR_KEEP
    /\ tb.results[1].validation =
           ValidationResult(TRUE, <<>>, << <<"Extra placeholder", A_N>> >>)

\* C22: no step removes an entry of the cache or changes its text; a step adds an
\* entry only when a request of translate_batch is answered with a parsed response
\* and the call returns, and then under the triple of a task of this request, with the
\* translation the response pairs with it, which is among the returned results; and
\* when translate_batch is entered a task gets a result from the cache exactly when
\* its own triple is in the cache, so a task that shares language and key with an
\* entry but has another source text is among the tasks to request.
C22_CacheMonotonic ==
    /\ [][/\ \A k \in DOMAIN translation_cache :
                /\ k \in DOMAIN translation_cache'
                /\ translation_cache'[k] = translation_cache[k]
          /\ \A k \in (DOMAIN translation_cache') \ (DOMAIN translation_cache) :
                /\ pc = "request"
                /\ pc' = "results"
                /\ Len(tb'.requests) = Len(tb.requests) + 1
                /\ LET request == tb'.requests[Len(tb'.requests)]
                   IN  /\ request.outcome = "parsed"
                       /\ \E j \in Pairs(request) :
                             /\ k = <<request.tasks[j].locale, request.tasks[j].key,
                                      request.tasks[j].english_value>>
                             /\ translation_cache'[k] = request.translations[j]
                             /\ \E x \in 1..Len(tb'.results) :
                                   /\ tb'.results[x].task = request.tasks[j]
                                   /\ tb'.results[x].translated = request.translations[j]]_vars
    /\ [][(pc = "batch" /\ bi <= Len(batches)) =>
             \A t \in Range(batches[bi]) :
                IF <<t.locale, t.key, t.english_value>> \in DOMAIN translation_cache
                THEN /\ \E x \in 1..Len(tb'.results) : tb'.results[x].task = t
                     /\ ~InSeq(t, tb'.uncached_tasks)
                ELSE /\ \A x \in 1..Len(tb'.results) : tb'.results[x].task # t
                     /\ InSeq(t, tb'.uncached_tasks)]_vars

\* the case of C22: the first call has cached a translation of bye for the text of
\* common.json; the second call, on the key bye with the other text of chat.json, has
\* made a request of its own, and the cache holds both entries, the first unchanged
C22_Witness ==
    /\ pc = "results"
    /\ bi = 2
    /\ batches[1] = <<E_GREET, E_BYE>>
    /\ batches[2] = <<E_BYE_OTHER>>
    /\ Len(tb.requests) = 1
    /\ tb.requests[1].tasks = <<E_BYE_OTHER>>
    /\ <<"fr", "bye", S_BYE>> \in DOMAIN translation_cache
    /\ <<"fr", "bye", S_SEND>> \in DOMAIN translation_cache
    /\ translation_cache[<<"fr", "bye", S_BYE>>] = TR_KEEP
    /\ translation_cache[<<"fr", "bye", S_SEND>>] = TR_DROP

\* C27 as stated, on the batch loops of one batch, where the requests made are those
\* of the only call of translate_batch: when the loop has ended, api_calls is the
\* number of these requests
C27_Claimed ==
    (pc = "batch" /\ Len(batches) = 1 /\ bi > Len(batches)) =>
        stats.api_calls = Len(tb.requests)

\* what the code does: the only call has made three requests, of which two raised
\* and the third was answered, and api_calls is 1
C27_Miscounted ==
    /\ pc = "batch"
    /\ batches = << <<E_GREET, E_BYE>> >>
    /\ bi = 2
    /\ Len(tb.requests) = max_retries
    /\ tb.requests[1].outcome = "raised"
    /\ tb.requests[2].outcome = "raised"
    /\ tb.requests[3].outcome = "parsed"
    /\ stats.api_calls = 1
    /\ stats.translated = 2

(***************************************************************************)
(* Claims on the whole run                                                 *)
(***************************************************************************)
\* the value a locale file holds under a key: <<"absent">> when the file or the key
\* does not exist
ValueAt(fs, path, key) ==
    IF fs[path].exists /\ key \in DOMAIN fs[path].data THEN fs[path].data[key]
    ELSE <<"absent">>

\* C13: the step that follows a raise of translate_batch counts every task of the
\* batch as failed, counts none as translated, leaves the per-file map as it is and
\* goes on with the next batch of the same language, the tasks of the other languages
\* untouched; no key of a task of such a batch is ever written to its locale file; and
\* when the updates of a language are done, every translation of its per-file map is
\* in its locale file unless the run is a dry run.
C13_BatchFailure ==
    /\ [][pc = "raised" =>
            /\ stats'.failed = stats.failed + Len(batches[bi])
            /\ stats'.translated = stats.translated
            /\ file_translations' = file_translations
            /\ pc' = "batch"
            /\ bi' = bi + 1
            /\ <<all_tasks', li', batches'>> = <<all_tasks, li, batches>>]_vars
    /\ [](\A t \in raised_tasks :
             ValueAt(files, <<t.locale, t.file_name>>, t.key)
                 = ValueAt(files0, <<t.locale, t.file_name>>, t.key))
    /\ []((pc \in {"locale", "done"} /\ li > 1 /\ ~cfg.dry_run) =>
             \A i \in DOMAIN file_translations :
                \A k \in DOMAIN file_translations[i].translations :
                   Holds(files[<<all_tasks[li - 1].locale, file_translations[i].file_name>>],
                         k, file_translations[i].translations[k]))

\* the case of C13: a batch of fr has failed, another batch of fr has been written to
\* its file, and the following language zh has been processed and written
C13_Witness ==
    /\ pc = "done"
    /\ cfg.locales = None
    /\ \E t \in raised_tasks :
          /\ t.locale = "fr"
          /\ \E k \in Keys :
                /\ ValueAt(files, <<"fr", t.file_name>>, k)
                       # ValueAt(files0, <<"fr", t.file_name>>, k)
                /\ k # t.key
    /\ files[<<"zh", "chat.json">>] # files0[<<"zh", "chat.json">>]
    /\ stats.failed = Cardinality(raised_tasks)

\* C17: whatever the locale directories hold, no task and no batch has the file name
\* terms.json, no request carries a task of it, the per-file map has no item for it,
\* and no terms.json, temporary file or backup of it is created or changed.
C17_TermsOutOfScope ==
    /\ \A i \in DOMAIN all_tasks : \A t \in Range(all_tasks[i].tasks) :
          t.file_name # "terms.json"
    /\ \A i \in DOMAIN batches : \A t \in Range(batches[i]) : t.file_name # "terms.json"
    /\ tb.active =>
          \A i \in DOMAIN tb.requests : \A t \in Range(tb.requests[i].tasks) :
             t.file_name # "terms.json"
    /\ \A i \in DOMAIN file_translations : file_translations[i].file_name # "terms.json"
    /\ \A l \in AllLocales :
          /\ files[<<l, "terms.json">>] = files0[<<l, "terms.json">>]
          /\ files[<<l, with_suffix_tmp("terms.json")>>] = NoFile
          /\ backups[<<l, "terms.json">>] = NoFile

\* the case of C17: the reference has a terms.json with a key that fr does not have,
\* and a run that has translated and written other files of fr has ended
C17_Witness ==
    /\ pc = "done"
    /\ files0[<<"en", "terms.json">>].exists
    /\ "greet" \in DOMAIN files0[<<"en", "terms.json">>].data
    /\ "fr" \in dirs0
    /\ ~files[<<"fr", "terms.json">>].exists
    /\ files[<<"fr", "common.json">>] # files0[<<"fr", "common.json">>]
    /\ stats.translated > 0

(***************************************************************************)
(* The process from its start: construction, a call of run, and a second   *)
(* call on the same orchestrator or in a new process; fr has no translated *)
(* data, and the reference directory exists or not.                        *)
(***************************************************************************)
\* an empty translation
TR_EMPTY == <<>>

AnswerOptions == { Candidates, {TR_KEEP, TR_EMPTY} }

ProcessFrCommonOptions == { NoFile, File(Map2("greet", <<>>, "bye", <<>>)) }

InitProcess ==
    /\ \E hasEn \in BOOLEAN, frCommon \in ProcessFrCommonOptions :
          /\ dirs = {"fr"} \cup (IF hasEn THEN {"en"} ELSE {})
          /\ files = [p \in Paths |->
                         IF p[1] = ENGLISH_LOCALE /\ ~hasEn THEN NoFile
                         ELSE MakeFiles(File(EnglishCommon), NoFile, frCommon, NoFile,
                                        NoFile, NoFile)[p]]
    /\ backups = NoBackups
    /\ backup_dir = FALSE
    /\ dirs0 = dirs
    /\ files0 = files
    /\ prev = <<>>
    /\ raised_tasks = {}
    /\ update_calls = <<>>
    /\ answers \in AnswerOptions
    /\ english_data = NoEnglish
    /\ cfg \in [locales : {<<"fr">>}, batch_size : {MaxBatchSize}, dry_run : BOOLEAN]
    /\ pc = "new"
    /\ RunIdle
    /\ FramesIdle

ProcessNext ==
    \/ Construct
    \/ Next
    \/ RunAgain
    \/ NewProcess

SpecProcess == InitProcess /\ [][ProcessNext]_vars

\* no file of the language holds a non-empty text
NoTranslatedData(fs, locale) ==
    \A f \in FileNames : \A k \in DOMAIN fs[<<locale, f>>].data :
        fs[<<locale, f>>].data[k] = <<>>

\* the second call of run has passed its analysis
SecondRunAnalyzed == Len(prev) = 1 /\ pc \notin {"new", "start", "reference_missing"}

\* C15 as the specification states it: after a first run on a language without
\* translated data, the second run finds no task and writes nothing.  Whether the
\* second run finds a task is settled before the provider answers in it, so the
\* outputs of the provider in the second run do not matter.
C15_Claimed ==
    (Len(prev) = 1 /\ NoTranslatedData(prev[1].files0, "fr")) =>
        /\ SecondRunAnalyzed => all_tasks = <<>>
        /\ files = files0
        /\ backups = prev[1].backups

\* C15: when the first run on a language without translated data was not a dry run
\* and has translated every task it found, with a provider that answers with
\* non-empty texts, then the second run with the same arguments finds no task, ends
\* without a call of translate_batch or update_locale_file, and leaves every file
\* and the backup store as they were after the first run.
C15_SecondRun ==
    (/\ Len(prev) = 1
     /\ NoTranslatedData(prev[1].files0, "fr")
     /\ ~prev[1].cfg.dry_run
     /\ prev[1].stats.translated = prev[1].stats.total_tasks
     /\ TR_EMPTY \notin answers) =>
        /\ SecondRunAnalyzed => (pc = "done" /\ all_tasks = <<>>)
        /\ tb = NoFrame
        /\ upd = NoFrame
        /\ files = files0
        /\ dirs = dirs0
        /\ backups = prev[1].backups
        /\ \A k \in DOMAIN EnglishCommon : HasText(files[<<"fr", "common.json">>], k)

\* the case of C15: the first run has translated two tasks and written them, and the
\* second run, in a new process, has ended
C15_Witness ==
    /\ Len(prev) = 1
    /\ pc = "done"
    /\ ~prev[1].cfg.dry_run
    /\ prev[1].stats.total_tasks = 2
    /\ prev[1].stats.translated = 2
    /\ TR_EMPTY \notin answers
    /\ ~prev[1].files0[<<"fr", "common.json">>].exists
    /\ files[<<"fr", "common.json">>].exists
    /\ stats = Stats0

\* C16: when the reference directory does not exist, the construction raises
\* (FileNotFoundError) and the process never gets to run: no reference is loaded, no
\* task exists, translate_batch and update_locale_file are never called, and no file,
\* directory, backup or backup directory is created or changed.
C16_ReferenceMissing ==
    ENGLISH_LOCALE \notin dirs0 =>
        /\ pc \in {"new", "reference_missing"}
        /\ english_data = NoEnglish
        /\ all_tasks = <<>>
        /\ batches = <<>>
        /\ tb = NoFrame
        /\ upd = NoFrame
        /\ files = files0
        /\ dirs = dirs0
        /\ backups = NoBackups
        /\ ~backup_dir
        /\ stats = Stats0

C16_Witness ==
    /\ pc = "reference_missing"
    /\ ENGLISH_LOCALE \notin dirs
    /\ "fr" \in dirs
    /\ files[<<"fr", "common.json">>].exists
    /\ ~backup_dir

\* C18 as the specification states it: the counters are those of the call alone.  A
\* call that has found no task returns all counters at zero; a call that has found
\* tasks starts its first batch with the counters of work at zero; and a call returns
\* the number of its own tasks, of which it has translated or failed at most that many.
C18_Claimed ==
    /\ (pc = "done" /\ all_tasks = <<>>) => stats = Stats0
    /\ (pc = "locale" /\ li = 1) =>
          stats = [Stats0 EXCEPT !.total_tasks = SumTasks(all_tasks),
                                 !.estimated_cost =
                                     EstimatedCost(SumTasks(all_tasks), cfg.batch_size)]
    /\ pc = "done" =>
          /\ stats.total_tasks = SumTasks(all_tasks)
          /\ stats.translated + stats.failed <= stats.total_tasks

\* what the code does: the second call of run on the same orchestrator has found no
\* task and returns the counters of the first call
C18_Accumulated ==
    /\ Len(prev) = 1
    /\ pc = "done"
    /\ translation_cache # EmptyMap
    /\ all_tasks = <<>>
    /\ stats = prev[1].stats
    /\ stats.total_tasks = 2
    /\ stats.translated = 2
    /\ stats.api_calls > 0

\* C26 as stated, for the first call of run of a process: when it has ended, the
\* tasks counted as translated and those counted as failed are together all its tasks
C26_Claimed ==
    (pc = "done" /\ prev = <<>>) =>
        stats.translated + stats.failed = stats.total_tasks

\* what the code does: the run had two tasks in one batch, its only call of
\* translate_batch has returned one result, and the run has ended with one task
\* translated and none failed
C26_Unaccounted ==
    /\ pc = "done"
    /\ prev = <<>>
    /\ stats.total_tasks = 2
    /\ stats.api_calls = 1
    /\ Len(tb.requests) = 1
    /\ Len(tb.requests[1].tasks) = 2
    /\ Len(tb.results) = 1
    /\ stats.translated = 1
    /\ stats.failed = 0

\* C29 as stated: no accepted translation is empty, no key of a file of fr that a run
\* has changed holds the empty text, and no task of a second run is for a key that
\* the first run has changed
C29_Claimed ==
    /\ \A i \in DOMAIN file_translations :
          \A k \in DOMAIN file_translations[i].translations :
             file_translations[i].translations[k] # <<>>
    /\ \A f \in FileNames : \A k \in Keys :
          ValueAt(files, <<"fr", f>>, k) # ValueAt(files0, <<"fr", f>>, k) =>
              ValueAt(files, <<"fr", f>>, k) # <<>>
    /\ SecondRunAnalyzed =>
          \A i \in DOMAIN all_tasks : \A t \in Range(all_tasks[i].tasks) :
             ValueAt(files0, <<t.locale, t.file_name>>, t.key)
                 = ValueAt(prev[1].files0, <<t.locale, t.file_name>>, t.key)

\* what the code does: the first run has found no common.json of fr and has counted
\* both keys as translated, the provider having answered with the empty text for bye;
\* the file it wrote holds bye with the empty text, and the second run has a task for
\* bye as a key that is present and empty
C29_EmptyWritten ==
    /\ Len(prev) = 1
    /\ ~prev[1].cfg.dry_run
    /\ ~prev[1].files0[<<"fr", "common.json">>].exists
    /\ prev[1].stats.translated = 2
    /\ prev[1].stats.failed = 0
    /\ files0[<<"fr", "common.json">>].exists
    /\ ValueAt(files0, <<"fr", "common.json">>, "bye") = <<>>
    /\ pc = "locale"
    /\ li = 1
    /\ all_tasks = <<[locale |-> "fr",
                      tasks |-> <<TranslationTask("fr", "common.json", "bye", S_BYE, FALSE)>>]>>

(***************************************************************************)
(* The run on any list of languages: discovery, the reference language     *)
(* itself, a language named twice, two languages; the reference holds an   *)
(* empty text or not.                                                      *)
(***************************************************************************)
LocalesEnglishCommonOptions ==
    { File(EnglishCommon), File(Map2("greet", S_GREET, "bye", <<>>)) }

LocalesFrCommonOptions == { NoFile, File(Map2("greet", <<>>, "bye", X_OLD)) }

LocalesRequestedOptions == { None, <<"en">>, <<"fr", "en">>, <<"fr", "fr">>, <<"zh", "fr">> }

InitLocales ==
    /\ dirs = {"en", "fr", "zh"}
    /\ \E enCommon \in LocalesEnglishCommonOptions, frCommon \in LocalesFrCommonOptions :
          files = MakeFiles(enCommon, File(EnglishChat), frCommon, NoFile,
                            File(Map2("greet", X_OLD, "bye", X_OLD)), NoFile)
    /\ backups = NoBackups
    /\ dirs0 = dirs
    /\ files0 = files
    /\ prev = <<>>
    /\ raised_tasks = {}
    /\ update_calls = <<>>
    /\ answers = Candidates
    /\ backup_dir = TRUE
    /\ english_data = LoadEnglish(files, EnglishListing)
    /\ cfg \in [locales : LocalesRequestedOptions, batch_size : 1..MaxBatchSize,
                dry_run : BOOLEAN]
    /\ pc = "start"
    /\ RunIdle
    /\ FramesIdle

SpecLocales == InitLocales /\ [][Next]_vars

\* update_locale_file is running
InUpdate ==
    pc \in {"upd_backup", "upd_load", "upd_new", "upd_merge", "upd_open", "upd_dump",
            "upd_replace", "upd_return"}

\* the place of a language among the items of all_tasks, 0 when it has none
PlaceOf(locale) ==
    IF \E j \in DOMAIN all_tasks : all_tasks[j].locale = locale
    THEN CHOOSE j \in DOMAIN all_tasks : all_tasks[j].locale = locale
    ELSE 0

RECURSIVE SumMaps(_)
SumMaps(ft) ==
    IF ft = <<>> THEN 0
    ELSE Cardinality(DOMAIN Head(ft).translations) + SumMaps(Tail(ft))

\* C23: all_tasks names a language once; the calls of update_locale_file follow the
\* order of the languages, and while the batches of a language are translated no
\* call for this language has been made, so all of them come after its last batch;
\* no pair of language and file is the subject of two calls; a call starts only at
\* line 617, when no call is running and no temporary file exists, for the language
\* being processed and the next file of the per-file map, with the whole map of this
\* file, which is not empty; the per-file map is not changed while the files are
\* updated, and for the first language it holds as many translations as were
\* accepted in all its batches; when the updates of a language are done, every file
\* of the map has been the subject of a call.
C23_SequentialUpdates ==
    /\ [](\A i, j \in DOMAIN all_tasks : i # j => all_tasks[i].locale # all_tasks[j].locale)
    /\ [](\A a, b \in DOMAIN update_calls :
             /\ a # b => update_calls[a] # update_calls[b]
             /\ a < b => PlaceOf(update_calls[a][1]) <= PlaceOf(update_calls[b][1])
             /\ PlaceOf(update_calls[a][1]) \in 1..li)
    /\ []((pc \in {"batch", "request", "results", "raised"} /\ bi <= Len(batches)) =>
             \A a \in DOMAIN update_calls : PlaceOf(update_calls[a][1]) < li)
    /\ []((InUpdate \/ pc = "update") =>
             /\ bi > Len(batches)
             /\ li = 1 => SumMaps(file_translations) = stats.translated)
    /\ []((pc = "update" /\ ui > Len(file_translations)) =>
             \A i \in DOMAIN file_translations :
                InSeq(<<all_tasks[li].locale, file_translations[i].file_name>>, update_calls))
    /\ [][update_calls' # update_calls =>
             /\ pc = "update"
             /\ ~InUpdate
             /\ \A l \in AllLocales : \A f \in TmpNames : files[<<l, f>>] = NoFile
             /\ update_calls' = Append(update_calls,
                                       <<all_tasks[li].locale, file_translations[ui].file_name>>)
             /\ upd'.file_path = <<all_tasks[li].locale, file_translations[ui].file_name>>
             /\ upd'.translations = file_translations[ui].translations
             /\ upd'.translations # EmptyMap]_vars
    /\ [][(InUpdate \/ pc = "update") => file_translations' = file_translations]_vars

\* the case of C23: the run was asked for fr twice; fr had three tasks in two files,
\* translated in three batches; both files have been the subject of one call each,
\* common.json with the map of two batches, and the run has ended
C23_Witness ==
    /\ pc = "done"
    /\ cfg.locales = <<"fr", "fr">>
    /\ cfg.batch_size = 1
    /\ Len(all_tasks) = 1
    /\ stats.total_tasks = 3
    /\ stats.translated = 3
    /\ stats.api_calls = 3
    /\ update_calls = << <<"fr", "chat.json">>, <<"fr", "common.json">> >>
    /\ Len(file_translations) = 2
    /\ Cardinality(DOMAIN file_translations[2].translations) = 2

\* C28 as stated: no task has the reference language as its target, and no file of
\* the directory of the reference language is created, changed or backed up
C28_Claimed ==
    /\ \A i \in DOMAIN all_tasks :
          /\ all_tasks[i].locale # ENGLISH_LOCALE
          /\ \A t \in Range(all_tasks[i].tasks) : t.locale # ENGLISH_LOCALE
    /\ \A f \in FileNames \cup TmpNames :
          /\ files[<<ENGLISH_LOCALE, f>>] = files0[<<ENGLISH_LOCALE, f>>]
          /\ backups[<<ENGLISH_LOCALE, f>>] = NoFile

\* what the code does: the run was asked for en, common.json of the reference held
\* the key bye with the empty text, and the run has ended with a text of the provider
\* under this key in the reference file
C28_ReferenceChanged ==
    /\ pc = "done"
    /\ cfg.locales = <<"en">>
    /\ ~cfg.dry_run
    /\ files0[<<"en", "common.json">>].data["bye"] = <<>>
    /\ all_tasks = <<[locale |-> "en",
                      tasks |-> <<TranslationTask("en", "common.json", "bye", <<>>, FALSE)>>]>>
    /\ files[<<"en", "common.json">>].data["bye"] = TR_DROP
    /\ backups[<<"en", "common.json">>] = files0[<<"en", "common.json">>]
    /\ stats.translated = 1

(***************************************************************************)
(* validate_translation on any task and translation.                       *)
(***************************************************************************)
MaxOriginalAtoms == 2

MaxTranslatedAtoms == 3

\* a character that is neither a Latin letter nor white space
A_SIGN == <<"#">>

OriginalAtoms == { A_N, <<"a">>, <<"a", "b", "c">> }

TranslatedAtoms == { A_N, A_X, <<"a">>, A_SIGN, <<" ">>, T_HTTPS }

InitValidate ==
    /\ dirs = {"en"}
    /\ files = MakeFiles(File(EnglishCommon), File(EnglishChat), NoFile, NoFile, NoFile, NoFile)
    /\ backups = NoBackups
    /\ dirs0 = dirs
    /\ files0 = files
    /\ prev = <<>>
    /\ raised_tasks = {}
    /\ update_calls = <<>>
    /\ answers = Candidates
    /\ backup_dir = TRUE
    /\ english_data = LoadEnglish(files, EnglishListing)
    /\ cfg = [locales |-> None, batch_size |-> 1, dry_run |-> FALSE]
    /\ pc = "validate_translation"
    /\ RunIdle
    /\ translation_cache = EmptyMap
    /\ tb = NoFrame
    /\ upd = NoFrame
    /\ \E original \in TextsOf(OriginalAtoms, MaxOriginalAtoms),
          translated \in TextsOf(TranslatedAtoms, MaxTranslatedAtoms),
          locale \in TargetLocales, terms \in TermOrders :
          call = [active |-> TRUE,
                  task |-> TranslationTask(locale, "common.json", "greet", original, TRUE),
                  translated |-> translated, terms |-> terms,
                  done |-> FALSE, result |-> ValidationResult(TRUE, <<>>, <<>>)]

\* lines 305-322
CallValidateTranslation ==
    /\ pc = "validate_translation"
    /\ ~call.done
    /\ call' = [call EXCEPT !.done = TRUE,
                            !.result = validate_translation(call.task, call.translated,
                                                            call.terms)]
    /\ UNCHANGED <<fsVars, histVars, answers, backup_dir, english_data, cfg, pc, runVars,
                   translation_cache, tb, upd>>

SpecValidate == InitValidate /\ [][CallValidateTranslation]_vars

\* C19: the composite result is valid exactly when the placeholder check is; the
\* length check and the script check are valid and without errors; the errors and the
\* warnings of the composite are those of the placeholder, length and script checks in
\* this order; and the composite is valid exactly when it has no error.
C19_Composite ==
    (call.active /\ call.done) =>
        LET original == call.task.english_value
            r == call.result
            r1 == validate_placeholders(original, call.translated)
            r2 == validate_length(original, call.translated)
            r3 == validate_no_english_remnants(original, call.translated, call.task.locale,
                                               call.terms)
        IN  /\ r.is_valid = r1.is_valid
            /\ r2.is_valid /\ r2.errors = <<>>
            /\ r3.is_valid /\ r3.errors = <<>>
            /\ r.errors = r1.errors
            /\ r.errors = r1.errors \o r2.errors \o r3.errors
            /\ r.warnings = r1.warnings \o r2.warnings \o r3.warnings
            /\ r.is_valid <=> r.errors = <<>>

\* the case of C19: the placeholder is lost, the translation is short and Latin in a
\* language of another script: invalid by the placeholder check alone, with the
\* warnings of the length check and then of the script check
C19_Witness ==
    /\ call.active /\ call.done
    /\ call.task.english_value = A_N \o <<"a">>
    /\ call.task.locale = "zh"
    /\ call.translated = <<"a">>
    /\ call.result = ValidationResult(FALSE, << <<"Missing placeholder", A_N>> >>,
                                      << <<"length ratio", 6, 1>>,
                                         <<"untranslated English", 1, 1>> >>)

(***************************************************************************)
(* validate_length on texts of any two lengths.                            *)
(***************************************************************************)
MaxOriginalLen == 7

MaxTranslatedLen == 22

\* a text of n characters
TextOfLen(n) == [i \in 1..n |-> "a"]

InitLength ==
    /\ dirs = {"en"}
    /\ files = MakeFiles(File(EnglishCommon), File(EnglishChat), NoFile, NoFile, NoFile, NoFile)
    /\ backups = NoBackups
    /\ dirs0 = dirs
    /\ files0 = files
    /\ prev = <<>>
    /\ raised_tasks = {}
    /\ update_calls = <<>>
    /\ answers = Candidates
    /\ backup_dir = TRUE
    /\ english_data = LoadEnglish(files, EnglishListing)
    /\ cfg = [locales |-> None, batch_size |-> 1, dry_run |-> FALSE]
    /\ pc = "validate_length"
    /\ RunIdle
    /\ translation_cache = EmptyMap
    /\ tb = NoFrame
    /\ upd = NoFrame
    /\ \E o \in 0..MaxOriginalLen, t \in 0..MaxTranslatedLen :
          call = [active |-> TRUE, original |-> TextOfLen(o), translated |-> TextOfLen(t),
                  done |-> FALSE, result |-> ValidationResult(TRUE, <<>>, <<>>)]

\* lines 255-274, called as line 311 calls it (tolerance left at its default)
CallValidateLength ==
    /\ pc = "validate_length"
    /\ ~call.done
    /\ call' = [call EXCEPT !.done = TRUE,
                            !.result = validate_length(call.original, call.translated)]
    /\ UNCHANGED <<fsVars, histVars, answers, backup_dir, english_data, cfg, pc, runVars,
                   translation_cache, tb, upd>>

SpecLength == InitLength /\ [][CallValidateLength]_vars

\* C24: the length check never gives an error and never more than one warning; for an
\* empty source it gives nothing; for a source of o > 0 characters and a translation
\* of t characters it gives its warning exactly when t/o < 1/tolerance or
\* t/o > tolerance, with tolerance 5 for o <= 5 and 3 otherwise, so not when the ratio
\* equals a bound (5/1, 1/5 for short sources, 18/6, 2/6 for longer ones).
C24_LengthCheck ==
    (pc = "validate_length" /\ call.done) =>
        LET o == Len(call.original)
            t == Len(call.translated)
            r == call.result
            tolerance == IF o <= 5 THEN 5 ELSE 3
            below == t * tolerance < o
            above == t > tolerance * o
        IN  /\ r.is_valid
            /\ r.errors = <<>>
            /\ Len(r.warnings) <= 1
            /\ o = 0 => r.warnings = <<>>
            /\ o > 0 => (Len(r.warnings) = 1 <=> (below \/ above))
            /\ (o = 5 /\ t \in {1, 16}) => r.warnings = <<>>
            /\ (o = 1 /\ t = 5) => r.warnings = <<>>
            /\ (o = 6 /\ t \in {2, 18}) => r.warnings = <<>>
            /\ (o = 6 /\ t \in {1, 19}) => Len(r.warnings) = 1
            /\ (o = 5 /\ t = 0) => Len(r.warnings) = 1
            /\ (o = 1 /\ t = 6) => Len(r.warnings) = 1

\* the cases of C24: a source of 6 characters with a translation of 19 is warned of
C24_Witness ==
    /\ pc = "validate_length"
    /\ call.done
    /\ Len(call.original) = 6
    /\ Len(call.translated) = 19
    /\ call.result = ValidationResult(TRUE, <<>>, << <<"length ratio", 6, 19>> >>)

(***************************************************************************)
(* validate_no_english_remnants on any translation, for a language of      *)
(* Latin script and one of another script, in any order of the terms.      *)
(***************************************************************************)
MaxScriptAtoms == 4

\* one Latin letter among three characters
A_MIXED == <<"a", "#", "#">>

ScriptAtoms == { A_MIXED, A_SIGN, <<" ">>, T_HTTPS, A_N }

InitScript ==
    /\ dirs = {"en"}
    /\ files = MakeFiles(File(EnglishCommon), File(EnglishChat), NoFile, NoFile, NoFile, NoFile)
    /\ backups = NoBackups
    /\ dirs0 = dirs
    /\ files0 = files
    /\ prev = <<>>
    /\ raised_tasks = {}
    /\ update_calls = <<>>
    /\ answers = Candidates
    /\ backup_dir = TRUE
    /\ english_data = LoadEnglish(files, EnglishListing)
    /\ cfg = [locales |-> None, batch_size |-> 1, dry_run |-> FALSE]
    /\ pc = "validate_no_english_remnants"
    /\ RunIdle
    /\ translation_cache = EmptyMap
    /\ tb = NoFrame
    /\ upd = NoFrame
    /\ \E translated \in TextsOf(ScriptAtoms, MaxScriptAtoms),
          locale \in TargetLocales, terms \in TermOrders :
          call = [active |-> TRUE, original |-> S_BYE, translated |-> translated,
                  locale |-> locale, terms |-> terms,
                  done |-> FALSE, result |-> ValidationResult(TRUE, <<>>, <<>>)]

\* lines 276-303
CallValidateNoEnglishRemnants ==
    /\ pc = "validate_no_english_remnants"
    /\ ~call.done
    /\ call' = [call EXCEPT !.done = TRUE,
                            !.result = validate_no_english_remnants(call.original,
                                           call.translated, call.locale, call.terms)]
    /\ UNCHANGED <<fsVars, histVars, answers, backup_dir, english_data, cfg, pc, runVars,
                   translation_cache, tb, upd>>

SpecScript == InitScript /\ [][CallValidateNoEnglishRemnants]_vars

\* the positions of a text that hold a character of the set
Positions(s, S) == {i \in 1..Len(s) : s[i] \in S}

\* C25: the script check never gives an error and never more than one warning; it
\* gives its warning exactly when the language is one of the non-Latin set and, in the
\* translation without the terms and then without the placeholders, at least one
\* character that is not white space remains and the Latin letters are more than 0.3
\* of these characters (3 Latin letters of 10 characters give none); for a language
\* outside the set it gives nothing.
C25_ScriptCheck ==
    (pc = "validate_no_english_remnants" /\ call.done) =>
        LET r == call.result
            remaining == StripPlaceholders(RemoveTerms(call.translated, call.terms))
            kept == (1..Len(remaining)) \ Positions(remaining, Whitespace)
            latin == Positions(remaining, LatinLetters)
        IN  /\ r.is_valid
            /\ r.errors = <<>>
            /\ Len(r.warnings) <= 1
            /\ r.warnings # <<>> <=>
                  /\ call.locale \in non_latin_scripts
                  /\ Cardinality(kept) >= 1
                  /\ 10 * Cardinality(latin) > 3 * Cardinality(kept)
            /\ call.locale \notin non_latin_scripts => r = ValidationResult(TRUE, <<>>, <<>>)
            /\ (call.locale = "zh" /\ call.translated = A_MIXED \o A_MIXED \o A_MIXED \o A_SIGN) =>
                  r.warnings = <<>>

\* the case of C25: for zh, 2 Latin letters among the 6 characters that remain when
\* the white space and the placeholder are left out are warned of
C25_Witness ==
    /\ pc = "validate_no_english_remnants"
    /\ call.done
    /\ call.locale = "zh"
    /\ call.translated = A_MIXED \o <<" ">> \o A_N \o A_MIXED
    /\ call.result.warnings = << <<"untranslated English", 2, 6>> >>

\* C30 as stated: whether the script check warns is the same for every order in which
\* the terms are removed
C30_Claimed ==
    (pc = "validate_no_english_remnants" /\ call.done) =>
        \A terms \in TermOrders :
            (validate_no_english_remnants(call.original, call.translated, call.locale,
                                          terms).warnings = <<>>)
                <=> (call.result.warnings = <<>>)

\* what the code does with the translation HTTPS for zh: when HTTP is removed before
\* HTTPS, the S remains and is warned of; when HTTPS is removed first, nothing remains
C30_OrderDependent ==
    /\ pc = "validate_no_english_remnants"
    /\ call.done
    /\ call.locale = "zh"
    /\ call.translated = T_HTTPS
    /\ call.result.warnings = << <<"untranslated English", 1, 1>> >>
    /\ \E terms \in TermOrders :
          /\ terms # call.terms
          /\ validate_no_english_remnants(call.original, call.translated, call.locale,
                                          terms).warnings = <<>>

=============================================================================
